---- MODULE Spec2Model ----
(***************************************************************************)
(* A model of the petri-backend tick engine (ServerGameState).             *)
(*                                                                         *)
(* Numbers.  The program computes with IEEE doubles.  The model computes   *)
(* with fixed-point integers: every length is a whole number of 1/Scale    *)
(* pixels, a Math.random() result is a whole number of 1/RandDen, a zoom   *)
(* factor is a whole number of 1/Million, and a quotient is truncated.     *)
(* Program constants are written in the program's own unit (pixels) and    *)
(* converted with Px.                                                      *)
(***************************************************************************)
EXTENDS Integers, Sequences, FiniteSets, TLC

----------------------------------------------------------------------------
(* Program constants                                                       *)

TPS == 60
WORLD_RADIUS == 1000
INITIAL_PLAYER_RADIUS == 20
GRID_CELL_SIZE == 100
MIN_SEPERATION_DISTANCE == 3
MINIMUM_FOOD_RADIUS == 3
MAXIMUM_FOOD_RADIUS == 5
MAXIMUM_FOOD_SPAWNING_ATTEMPTS == 10
MAXIMUM_PLAYER_SPAWNING_ATTEMPTS == 10
CLIENT_WIDTH_PIXELS == 1920
CLIENT_HEIGHT_PIXELS == 1080
\* max_attempts passed by _spawnPlayer and by _spawnFood
PLAYER_LOCATION_ATTEMPTS == 5
FOOD_LOCATION_ATTEMPTS == 3
\* food_amount added per spawned player
FOOD_PER_PLAYER == 100
\* the clamp of dt in _startTickLoop, in milliseconds (0.01 s)
DT_CLAMP_MS == 10

\* Entity and EntityType enums
PLAYER_BLOB == "PLAYER_BLOB"
FOOD == "FOOD"
VIRUS == "VIRUS"
WORLD_OBJECT == "WORLD_OBJECT"

----------------------------------------------------------------------------
(* Bounds of the model                                                     *)

\* number of join_game messages (each carries a fresh uuid)
MaxPlayers == 2
\* number of ticks the loop runs
MaxTicks == 3
\* number of world objects the world may hold
MaxFood == 1
\* the servers of the election, and the seconds its clock runs for
MaxServers == 3
MaxClockTicks == 6
\* the subscriptions a WebSocketManager is given
MaxSubscriptions == 4

\* the pairs of Math.random() results the model draws for the two coordinates
\* of a candidate position, in 1/RandDen
PositionSamples == {<<0, 0>>, <<462, 462>>, <<452, 452>>, <<462, 452>>}
\* the Math.random() results drawn for a food radius, in 1/RandDen
RadiusSamples == {0}
\* the client cursor positions of update_position messages: the middle of the
\* top edge and the middle of the right edge of the viewport
CursorSamples == {<<960, 0>>, <<1920, 540>>}

PlayerUUIDs == 1..MaxPlayers
FirstFoodUUID == MaxPlayers + 1

----------------------------------------------------------------------------
(* Fixed-point arithmetic                                                  *)

\* units per pixel
Scale == 10
RandDen == 10 * 10 * 10
Million == 1000 * 1000
\* denominator of the fixed-point logarithm
LnDen == 100 * 100
\* ln 2 in 1/LnDen
Ln2 == 6931

Px(n) == n * Scale

\* quotient truncated toward zero, b > 0
TDiv(a, b) == IF a >= 0 THEN a \div b ELSE -((-a) \div b)

Abs(a) == IF a >= 0 THEN a ELSE -a
Min(a, b) == IF a <= b THEN a ELSE b
Max(a, b) == IF a >= b THEN a ELSE b

\* Math.random() * k
RandomTimes(rand, k) == TDiv(rand * k, RandDen)

RECURSIVE SqrtSearch(_, _, _)
SqrtSearch(n, lo, hi) ==
  IF lo >= hi THEN lo
  ELSE LET mid == (lo + hi + 1) \div 2
       IN IF mid * mid <= n THEN SqrtSearch(n, mid, hi) ELSE SqrtSearch(n, lo, mid - 1)

\* Math.sqrt, rounded down
Sqrt(n) == SqrtSearch(n, 0, 46340)

RECURSIVE LnReduce(_, _, _)
\* ln(num/den) for num >= den > 0, in 1/LnDen: halve the argument into [1, 2),
\* then 2 * atanh((t - 1)/(t + 1)) by its series
LnReduce(num, den, k) ==
  IF num >= 2 * den THEN LnReduce(num, 2 * den, k + 1)
  ELSE LET z == ((num - den) * LnDen) \div (num + den)
           z2 == (z * z) \div LnDen
           z3 == (z2 * z) \div LnDen
           z5 == (z3 * z2) \div LnDen
           z7 == (z5 * z2) \div LnDen
       IN k * Ln2 + 2 * (z + (z3 \div 3) + (z5 \div 5) + (z7 \div 7))

\* Math.log of a length v (in 1/Scale), in 1/LnDen
Log(v) == LnReduce(v, Scale, 0)

----------------------------------------------------------------------------
(* Bounding boxes (stores.ts)                                              *)

calculate_aabb(x, y, wr, hr) ==
  [minX |-> x - wr, minY |-> y - hr, maxX |-> x + wr, maxY |-> y + hr]

sweeping_aabb(x, y, vx, vy, wr, hr) ==
  LET nx == x + TDiv(vx, TPS)
      ny == y + TDiv(vy, TPS)
  IN [minX |-> Min(x, nx) - wr, minY |-> Min(y, ny) - hr,
      maxX |-> Max(x, nx) + wr, maxY |-> Max(y, ny) + hr]

_overlaps(a, b) ==
  ~(a.maxX < b.minX \/ a.minX > b.maxX \/ a.maxY < b.minY \/ a.minY > b.maxY)

----------------------------------------------------------------------------
(* Cell keys.  A key is the 64-bit number (x << 32) | y; the model writes  *)
(* it in base 2^16 as <<x_hi, x_lo, y_hi, y_lo>>.                          *)

Word == 65536

\* BigInt(c) & 0xffffffffn, as <<hi, lo>>
Low32(c) == <<(c \div Word) % Word, c % Word>>

\* ((raw ^ 0x80000000n) - 0x80000000n): the signed value of a 32-bit word
Signed32(hi, lo) == IF hi >= Word \div 2 THEN (hi - Word) * Word + lo ELSE hi * Word + lo

\* _hashCell with the mask 0xffffn in place of 0xffffffffn
_hashCellNarrow(cx, cy) == <<0, cx % Word, 0, cy % Word>>

_hashCell(cx, cy) == Low32(cx) \o Low32(cy)

_unhashCell(hash) == [x |-> Signed32(hash[1], hash[2]), y |-> Signed32(hash[3], hash[4])]

\* the keys in the order _cellsIntersectingAabb adds them (rows outside,
\* columns inside)
CellSeq(bounding_box) ==
  LET cx1 == bounding_box.minX \div Px(GRID_CELL_SIZE)
      cy1 == bounding_box.minY \div Px(GRID_CELL_SIZE)
      cx2 == bounding_box.maxX \div Px(GRID_CELL_SIZE)
      cy2 == bounding_box.maxY \div Px(GRID_CELL_SIZE)
      w == cx2 - cx1 + 1
      h == cy2 - cy1 + 1
  IN [i \in 1..(w * h) |-> _hashCell(cx1 + ((i - 1) % w), cy1 + ((i - 1) \div w))]

_cellsIntersectingAabb(bounding_box) ==
  {CellSeq(bounding_box)[i] : i \in DOMAIN CellSeq(bounding_box)}

----------------------------------------------------------------------------
(* Entity uuids in grid cells: "uuid:blob_index" or "uuid", modelled as    *)
(* the list of the parts between the colons.                               *)

stringify_entity_type_uuid(entity_uuid) ==
  IF entity_uuid.type = PLAYER_BLOB
  THEN <<entity_uuid.uuid, entity_uuid.blob_index>>
  ELSE <<entity_uuid.uuid>>

parse_entity_type_uuid(entity_uuid) ==
  IF Len(entity_uuid) < 2
  THEN [type |-> WORLD_OBJECT, uuid |-> entity_uuid[1]]
  ELSE [type |-> PLAYER_BLOB, uuid |-> entity_uuid[1], blob_index |-> entity_uuid[2]]

----------------------------------------------------------------------------
(* State                                                                   *)

VARIABLES
  \* ServerGameState fields
  grid,                       \* Map<bigint, Set<string>>: cell key -> entity uuids
  players,                    \* Map<PlayerUUID, Player>
  player_order,               \* the insertion order of the players map
  world_objects,              \* Map<WorldObjectUUID, ServerWorldObject>
  spawning_players,           \* Set<PlayerUUID>, in insertion order
  food_amount,
  \* the tick loop
  pc,                         \* where the tick is: "idle" between ticks
  tick_count,                 \* ticks started so far
  steps_done,                 \* the steps of _tick finished in the current tick, in order
  \* locals of _spawnFood
  total_food_spawning_radius,
  failures,
  food_radius,
  next_food_uuid,             \* crypto.randomUUID(): a uuid never used before
  \* locals of _randomCollisionFreeLocation and its result
  search,
  \* locals of _spawnPlayer
  spawn_queue,                \* the uuids the for-of over spawning_players has yet to visit
  \* pubClient.publish
  join_game_msgs,             \* uuid -> data of the join_game message published
  tick_updates,               \* uuid -> data of the tick_update published in the last broadcast
  \* history
  dropped_cells,              \* the cells the last _updatePlayersLocations deleted from the grid
  broadcast_queue,            \* the uuids the for-of of _broadcastTickUpdate has yet to visit
  ticks_in_progress,          \* the _tick invocations that have not settled
  position_updates,           \* the uuids an update_position message was applied to
  chase_target,               \* uuid -> the world position the last update_position applied made the target
  last_message,               \* the last message a listener was called with since the tick began
  \* the gateway, and the failed searches of _spawnPlayer
  sessions,                   \* uuid -> the gateway's state of the join_game request that drew the uuid
  client_msgs,                \* uuid -> the messages the gateway sent to the client of the request
  failed_ticks,               \* uuid -> the ticks in a row that found no place for the join_game
  \* calls of the static functions
  cell_call,                  \* the arguments and results of _hashCell and of _unhashCell on its key
  \* the election: the keys of the Redis server, the clock and the servers
  election_leader,            \* election_leader_{key}: the uuid of a server, or none
  server_heartbeat,           \* server uuid -> server_heartbeat_{uuid}: a time in ms, or none
  now,                        \* Date.now(), in ms
  servers_up,                 \* the servers whose process runs
  election_calls,             \* server uuid -> the position and locals of its election(key) call
  \* WebSocketManager fields, its timers and its sockets
  retryCount,
  isReconnecting,
  ws,                         \* the state of this.ws: "null" before the first connect()
  subscriptions,              \* the ids of the subscriptions map
  reconnect_timers,           \* the timers of scheduleReconnect that have not fired
  sockets_created,            \* the WebSocket objects connect() has created
  subscriptions_sent          \* the ids sendSubscription has sent on the socket of this.ws

\* the variables of the engine and of the gateway in front of it
EngineVars ==
  <<grid, players, player_order, world_objects, spawning_players, food_amount, pc,
    tick_count, steps_done, total_food_spawning_radius, failures, food_radius,
    next_food_uuid, search, spawn_queue, join_game_msgs, tick_updates, dropped_cells,
    broadcast_queue, ticks_in_progress, position_updates, chase_target, last_message,
    sessions, client_msgs, failed_ticks>>

\* the variables of the election
ElectionVars == <<election_leader, server_heartbeat, now, servers_up, election_calls>>

\* the variables of the WebSocketManager
ManagerVars ==
  <<retryCount, isReconnecting, ws, subscriptions, reconnect_timers, sockets_created,
    subscriptions_sent>>

\* the variables no step of the engine or of the gateway writes
UtilityVars == <<cell_call, ElectionVars, ManagerVars>>

vars ==
  <<grid, players, player_order, world_objects, spawning_players, food_amount, pc,
    tick_count, steps_done, total_food_spawning_radius, failures, food_radius,
    next_food_uuid, search, spawn_queue, join_game_msgs, tick_updates, dropped_cells,
    broadcast_queue, ticks_in_progress, position_updates, chase_target, last_message,
    sessions, client_msgs, failed_ticks, cell_call, election_leader, server_heartbeat, now,
    servers_up, election_calls, retryCount, isReconnecting, ws, subscriptions,
    reconnect_timers, sockets_created, subscriptions_sent>>

\* no call of _hashCell made
NoCellCall == [step |-> "none", cx |-> 0, cy |-> 0, hash |-> <<0, 0, 0, 0>>, cell |-> [x |-> 0, y |-> 0]]

EmptyMap == <<>>
NoCell == <<>>
NoAabb == calculate_aabb(0, 0, 0, 0)
NoResult == [success |-> FALSE]

\* the locals of _randomCollisionFreeLocation at entry
SearchStart(radius, max_attempts, entity) ==
  [radius |-> radius, max_attempts |-> max_attempts, entity |-> entity,
   attempts |-> 0, empty_cell_hash |-> NoCell, aabb |-> NoAabb,
   candidates |-> 0, result |-> NoResult]

NoSearch == SearchStart(0, 0, FOOD)

\* no message was delivered
NoMessage == [channel |-> "none"]

EngineInit ==
  /\ grid = EmptyMap
  /\ players = EmptyMap
  /\ player_order = <<>>
  /\ world_objects = EmptyMap
  /\ spawning_players = <<>>
  /\ food_amount = 0
  /\ pc = "idle"
  /\ tick_count = 0
  /\ steps_done = <<>>
  /\ total_food_spawning_radius = 0
  /\ failures = 0
  /\ food_radius = 0
  /\ next_food_uuid = FirstFoodUUID
  /\ search = NoSearch
  /\ spawn_queue = <<>>
  /\ join_game_msgs = EmptyMap
  /\ tick_updates = EmptyMap
  /\ dropped_cells = {}
  /\ broadcast_queue = <<>>
  /\ ticks_in_progress = 0
  /\ position_updates = {}
  /\ chase_target = EmptyMap
  /\ last_message = NoMessage
  /\ sessions = EmptyMap
  /\ client_msgs = EmptyMap
  /\ failed_ticks = EmptyMap

\* the servers that take part in the election of one key
Servers == 1 .. MaxServers
NoServer == 0
NoHeartbeat == -1

\* no election(key) call made
NoElectionCall == [pc |-> "idle", current_leader |-> NoServer, result |-> "none"]

\* part_002: the Redis server holds no key, every server runs
ElectionInit ==
  /\ election_leader = NoServer
  /\ server_heartbeat = [s \in Servers |-> NoHeartbeat]
  /\ now = 0
  /\ servers_up = Servers
  /\ election_calls = [s \in Servers |-> NoElectionCall]

\* part_011 lines 2-16: the fields of a WebSocketManager after its constructor
ManagerInit ==
  /\ retryCount = 0
  /\ isReconnecting = FALSE
  /\ ws = "null"
  /\ subscriptions = {}
  /\ reconnect_timers = 0
  /\ sockets_created = 0
  /\ subscriptions_sent = {}

Init ==
  /\ EngineInit
  /\ cell_call = NoCellCall
  /\ ElectionInit
  /\ ManagerInit

Range(s) == {s[i] : i \in DOMAIN s}

\* Map.set
MapSet(m, k, v) == [j \in DOMAIN m \cup {k} |-> IF j = k THEN v ELSE m[j]]

\* Map.delete
MapDelete(m, k) == [j \in DOMAIN m \ {k} |-> m[j]]

----------------------------------------------------------------------------
(* _randomCollisionFreeLocation                                            *)

\* the blob or world object an entity uuid of a grid cell refers to
BlobOf(entity_uuid) == players[entity_uuid.uuid].blobs[entity_uuid.blob_index + 1]

\* lines 267-291: TRUE when the entity behind a cell's uuid rejects the
\* candidate box
Collides(unparsed_entity_uuid, aabb, entity) ==
  LET entity_uuid == parse_entity_type_uuid(unparsed_entity_uuid)
  IN IF entity_uuid.type = PLAYER_BLOB
     THEN _overlaps(BlobOf(entity_uuid).aabb, aabb)
     ELSE LET world_object == world_objects[entity_uuid.uuid]
          IN IF entity = PLAYER_BLOB /\ world_object.type = FOOD
             THEN FALSE
             ELSE _overlaps(world_object.aabb, aabb)

RECURSIVE ScanCells(_, _, _, _, _)
\* lines 259-293: walk the candidate's cells in order; an absent cell is
\* flagged, a colliding entity ends the attempt
ScanCells(cell_hashes, i, aabb, entity, empty_cell_hash) ==
  IF i > Len(cell_hashes) THEN [collision |-> FALSE, empty_cell_hash |-> empty_cell_hash]
  ELSE IF cell_hashes[i] \notin DOMAIN grid
       THEN ScanCells(cell_hashes, i + 1, aabb, entity, cell_hashes[i])
       ELSE IF \E u \in grid[cell_hashes[i]] : Collides(u, aabb, entity)
            THEN [collision |-> TRUE, empty_cell_hash |-> empty_cell_hash]
            ELSE ScanCells(cell_hashes, i + 1, aabb, entity, empty_cell_hash)

\* line 220 without the increment
CountNothing(attempts) == attempts

\* line 220: attempts++
CountAttempt(attempts) == attempts + 1

\* lines 224-231: a coordinate inside the flagged cell
RetargetCoordinate(cell_coordinate, rand) ==
  Px(cell_coordinate) + RandomTimes(rand, Px(GRID_CELL_SIZE - MIN_SEPERATION_DISTANCE))
    + Px(MIN_SEPERATION_DISTANCE)

\* lines 246-248: a coordinate anywhere in the world
SampleCoordinate(radius, rand) ==
  LET ajusted_world_diameter == 2 * Px(WORLD_RADIUS) - radius
  IN RandomTimes(rand, ajusted_world_diameter) - TDiv(ajusted_world_diameter, 2)

\* lines 222-244: the attempt made when a cell was flagged by the attempt before
RetargetAttempt(s, rand_x, rand_y) ==
  LET cell == _unhashCell(s.empty_cell_hash)
      x == RetargetCoordinate(cell.x, rand_x)
      y == RetargetCoordinate(cell.y, rand_y)
  IN IF Abs(x) > Px(WORLD_RADIUS) - s.radius \/ Abs(y) > Px(WORLD_RADIUS) - s.radius
     THEN [s EXCEPT !.empty_cell_hash = NoCell,
                    !.attempts = CountAttempt(s.attempts) - 1,
                    !.candidates = @ + 1]
     ELSE [s EXCEPT !.attempts = CountAttempt(s.attempts),
                    !.candidates = @ + 1,
                    !.result = [success |-> TRUE,
                                location |-> [aabb |-> s.aabb, x |-> x, y |-> y,
                                              _cells |-> {s.empty_cell_hash}]]]

\* lines 246-298: the attempt at a random point of the world
RandomAttempt(s, rand_x, rand_y) ==
  LET x == SampleCoordinate(s.radius, rand_x)
      y == SampleCoordinate(s.radius, rand_y)
      aabb == calculate_aabb(x, y, s.radius + Px(MIN_SEPERATION_DISTANCE),
                             s.radius + Px(MIN_SEPERATION_DISTANCE))
      cell_hashes == CellSeq(aabb)
      scan == ScanCells(cell_hashes, 1, aabb, s.entity, s.empty_cell_hash)
  IN IF scan.collision
     THEN [s EXCEPT !.attempts = CountAttempt(s.attempts),
                    !.candidates = @ + 1,
                    !.aabb = aabb,
                    !.empty_cell_hash = scan.empty_cell_hash]
     ELSE [s EXCEPT !.attempts = CountAttempt(s.attempts),
                    !.candidates = @ + 1,
                    !.aabb = aabb,
                    !.result = [success |-> TRUE,
                                location |-> [aabb |-> aabb, x |-> x, y |-> y,
                                              _cells |-> Range(cell_hashes)]]]

\* one pass through the body of the while loop (lines 219-299)
Attempt(s, rand_x, rand_y) ==
  IF s.empty_cell_hash # NoCell
  THEN RetargetAttempt(s, rand_x, rand_y)
  ELSE RandomAttempt(s, rand_x, rand_y)

\* One iteration of the loop of _randomCollisionFreeLocation; the function
\* returns when a location is found or the loop condition fails.
SearchAttemptWithin(max_food, rand_x, rand_y) ==
  /\ pc = "search"
  /\ LET s == Attempt(search, rand_x, rand_y)
     IN /\ s.entity = FOOD /\ s.result.success => Cardinality(DOMAIN world_objects) < max_food
        /\ search' = s
        /\ pc' = IF s.result.success \/ ~(s.attempts < s.max_attempts)
                 THEN "searchDone" ELSE "search"
  /\ UNCHANGED <<grid, players, player_order, world_objects, spawning_players,
                 food_amount, tick_count, steps_done, total_food_spawning_radius,
                 failures, food_radius, next_food_uuid, spawn_queue, join_game_msgs,
                 tick_updates, dropped_cells, broadcast_queue, ticks_in_progress,
                 position_updates, chase_target, last_message, sessions, client_msgs,
                 failed_ticks, UtilityVars>>

SearchAttempt(rand_x, rand_y) == SearchAttemptWithin(MaxFood, rand_x, rand_y)

----------------------------------------------------------------------------
(* Listeners                                                               *)

Joined == Range(spawning_players) \cup DOMAIN players

\* a subscription callback with no yield point
ListenersMayRunAnytime == TRUE

\* A subscription callback runs when the event loop is free: between ticks,
\* while _tick awaits its publishes (line 733), and after the tick loop died.
\* _spawnFood, _updatePlayersLocations and the loops of _spawnPlayer and
\* _broadcastTickUpdate hold no await.
ListenersMayRun == pc \in {"idle", "publishing", "crashed"}

\* _joinGameListener: the gateway publishes one player:join_game per client
\* join, each with a uuid of its own (index.ts, join_game)
JoinGameListener(uuid) ==
  /\ ListenersMayRun
  /\ uuid \notin Joined
  /\ \A v \in PlayerUUIDs : v < uuid => v \in Joined
  /\ spawning_players' = Append(spawning_players, uuid)
  /\ last_message' = [channel |-> "player:join_game", uuid |-> uuid]
  /\ UNCHANGED <<grid, players, player_order, world_objects, food_amount, pc,
                 tick_count, steps_done, total_food_spawning_radius, failures,
                 food_radius, next_food_uuid, search, spawn_queue, join_game_msgs,
                 tick_updates, dropped_cells, broadcast_queue, ticks_in_progress,
                 position_updates, chase_target, sessions, client_msgs, failed_ticks,
                 UtilityVars>>

\* lines 564-565
ClientOffset(cursor, centre, zoom_factor) == TDiv((Px(cursor) - Px(centre)) * zoom_factor, Million)

\* lines 560-565 with the test of line 561 left out: a message that names no
\* player moves the cursor of every player
ApplyUpdatePositionUnchecked(ps, uuid, x, y) ==
  [u \in DOMAIN ps |->
     IF u = uuid \/ uuid \notin DOMAIN ps
     THEN [ps[u] EXCEPT
             !.client_x = ClientOffset(x, CLIENT_WIDTH_PIXELS \div 2, ps[u].zoom_factor),
             !.client_y = ClientOffset(y, CLIENT_HEIGHT_PIXELS \div 2, ps[u].zoom_factor)]
     ELSE ps[u]]

\* lines 560-565: the players map after the message
ApplyUpdatePosition(ps, uuid, x, y) ==
  IF uuid \notin DOMAIN ps THEN ps
  ELSE [ps EXCEPT
          ![uuid].client_x = ClientOffset(x, CLIENT_WIDTH_PIXELS \div 2, ps[uuid].zoom_factor),
          ![uuid].client_y = ClientOffset(y, CLIENT_HEIGHT_PIXELS \div 2, ps[uuid].zoom_factor)]

\* _playerUpdatePositionListener
PlayerUpdatePositionListener(uuid, x, y) ==
  /\ ListenersMayRun
  /\ last_message' = [channel |-> "player:update_position", uuid |-> uuid, x |-> x, y |-> y]
  /\ players' = ApplyUpdatePosition(players, uuid, x, y)
  /\ IF uuid \notin DOMAIN players
     THEN UNCHANGED <<position_updates, chase_target, sessions, client_msgs, failed_ticks, UtilityVars>>
     ELSE /\ position_updates' = position_updates \cup {uuid}
          /\ chase_target' =
               MapSet(chase_target, uuid,
                      [x |-> players'[uuid].com_x + players'[uuid].client_x,
                       y |-> players'[uuid].com_y - players'[uuid].client_y])
  /\ UNCHANGED <<grid, player_order, world_objects, spawning_players, food_amount, pc,
                 tick_count, steps_done, total_food_spawning_radius, failures,
                 food_radius, next_food_uuid, search, spawn_queue, join_game_msgs,
                 tick_updates, dropped_cells, broadcast_queue, ticks_in_progress, sessions,
                 client_msgs, failed_ticks, UtilityVars>>

----------------------------------------------------------------------------
(* _spawnFood                                                              *)

\* a timer that fires whether or not the tick before it has settled
TickMayStartAnytime == pc \in {"idle", "publishing"}

\* lines 739-743: _startTickLoop awaits _tick and only then sets the timer
\* of the next tick
TickMayStart == pc = "idle"

\* _startTickLoop calls _tick, which enters _spawnFood (lines 508-511); the
\* loop is followed for max_ticks ticks
TickWithin(max_ticks) ==
  /\ TickMayStart
  /\ tick_count < max_ticks
  /\ tick_count' = tick_count + 1
  /\ ticks_in_progress' = ticks_in_progress + 1
  /\ last_message' = NoMessage
  /\ steps_done' = <<>>
  /\ LET budget == food_amount - TDiv(Log(food_amount + Px(1)) * Scale, LnDen)
     IN /\ total_food_spawning_radius' = budget
        /\ food_amount' = food_amount - budget
  /\ failures' = 0
  /\ pc' = "spawnFood"
  /\ UNCHANGED <<grid, players, player_order, world_objects, spawning_players,
                 food_radius, next_food_uuid, search, spawn_queue, join_game_msgs,
                 tick_updates, dropped_cells, broadcast_queue, position_updates, chase_target,
                 sessions, client_msgs, failed_ticks, UtilityVars>>

TickStart == TickWithin(MaxTicks)

\* lines 513-515 without the test of failures
FoodLoopConditionUncapped ==
  total_food_spawning_radius > Px(MINIMUM_FOOD_RADIUS)

\* lines 513-515
FoodLoopCondition ==
  /\ total_food_spawning_radius > Px(MINIMUM_FOOD_RADIUS)
  /\ failures < MAXIMUM_FOOD_SPAWNING_ATTEMPTS

\* lines 517-525: draw a radius and call the location search
SpawnFoodIteration(rand) ==
  /\ pc = "spawnFood"
  /\ FoodLoopCondition
  /\ LET r == Px(MINIMUM_FOOD_RADIUS)
                + RandomTimes(rand, Px(MAXIMUM_FOOD_RADIUS - MINIMUM_FOOD_RADIUS))
     IN /\ food_radius' = r
        /\ total_food_spawning_radius' = total_food_spawning_radius - r
        /\ search' = SearchStart(r, FOOD_LOCATION_ATTEMPTS, FOOD)
  /\ pc' = "search"
  /\ UNCHANGED <<grid, players, player_order, world_objects, spawning_players,
                 food_amount, tick_count, steps_done, failures, next_food_uuid,
                 spawn_queue, join_game_msgs, tick_updates, dropped_cells, broadcast_queue,
                 ticks_in_progress, position_updates, chase_target, last_message, sessions,
                 client_msgs, failed_ticks, UtilityVars>>

\* lines 527-533
FoodFailed ==
  /\ pc = "searchDone"
  /\ search.entity = FOOD
  /\ ~search.result.success
  /\ failures' = failures + 1
  /\ search' = NoSearch
  /\ pc' = "spawnFood"
  /\ UNCHANGED <<grid, players, player_order, world_objects, spawning_players,
                 food_amount, tick_count, steps_done, total_food_spawning_radius,
                 food_radius, next_food_uuid, spawn_queue, join_game_msgs, tick_updates, dropped_cells,
                 broadcast_queue, ticks_in_progress, position_updates, chase_target,
                 last_message, sessions, client_msgs, failed_ticks, UtilityVars>>

RECURSIVE AddToCells(_, _, _)
\* lines 541-545 and 641-646: add the uuid to each of the cells, creating
\* the cells that are absent
AddToCells(g, cells, uuid) ==
  IF cells = {} THEN g
  ELSE LET c == CHOOSE k \in cells : TRUE
       IN AddToCells(MapSet(g, c, IF c \in DOMAIN g THEN g[c] \cup {uuid} ELSE {uuid}),
                     cells \ {c}, uuid)

\* lines 535-545
FoodPlaced ==
  /\ pc = "searchDone"
  /\ search.entity = FOOD
  /\ search.result.success
  /\ LET location == search.result.location
         food_uuid == next_food_uuid
     IN /\ world_objects' =
             MapSet(world_objects, food_uuid,
                    [aabb |-> location.aabb, x |-> location.x, y |-> location.y,
                     _cells |-> location._cells, r |-> food_radius, type |-> FOOD])
        /\ grid' = AddToCells(grid, location._cells,
                              stringify_entity_type_uuid([type |-> WORLD_OBJECT, uuid |-> food_uuid]))
  /\ next_food_uuid' = next_food_uuid + 1
  /\ search' = NoSearch
  /\ pc' = "spawnFood"
  /\ UNCHANGED <<players, player_order, spawning_players, food_amount, tick_count,
                 steps_done, total_food_spawning_radius, failures, food_radius,
                 spawn_queue, join_game_msgs, tick_updates, dropped_cells, broadcast_queue,
                 ticks_in_progress, position_updates, chase_target, last_message, sessions,
                 client_msgs, failed_ticks, UtilityVars>>

\* the loop of _spawnFood ends and its locals are gone; _tick goes on to
\* _updatePlayersLocations
SpawnFoodDone ==
  /\ pc = "spawnFood"
  /\ ~FoodLoopCondition
  /\ steps_done' = Append(steps_done, "spawnFood")
  /\ total_food_spawning_radius' = 0
  /\ failures' = 0
  /\ food_radius' = 0
  /\ pc' = "updatePlayersLocations"
  /\ UNCHANGED <<grid, players, player_order, world_objects, spawning_players,
                 food_amount, tick_count, next_food_uuid, search, spawn_queue,
                 join_game_msgs, tick_updates, dropped_cells, broadcast_queue,
                 ticks_in_progress, position_updates, chase_target, last_message, sessions,
                 client_msgs, failed_ticks, UtilityVars>>

----------------------------------------------------------------------------
(* _visibleEntities                                                        *)

_calculatePlayerScale(r) == TDiv(Log(r) * (Million \div LnDen), 100) + TDiv(3 * Million, 100)

\* the model's order of the uuids of one cell (a Set is walked in insertion
\* order; what _visibleEntities returns does not depend on it)
UuidBefore(a, b) ==
  \/ a[1] < b[1]
  \/ a[1] = b[1] /\ Len(a) < Len(b)
  \/ a[1] = b[1] /\ Len(a) = Len(b) /\ Len(a) > 1 /\ a[2] < b[2]

RECURSIVE UuidsInOrder(_)
UuidsInOrder(S) ==
  IF S = {} THEN <<>>
  ELSE LET m == CHOOSE a \in S : \A b \in S \ {a} : UuidBefore(a, b)
       IN <<m>> \o UuidsInOrder(S \ {m})

RECURSIVE UuidsOfCells(_, _, _)
\* the entity uuids met by the two nested loops of lines 326-327, in order
UuidsOfCells(g, cells, i) ==
  IF i > Len(cells) THEN <<>>
  ELSE (IF cells[i] \in DOMAIN g THEN UuidsInOrder(g[cells[i]]) ELSE <<>>)
         \o UuidsOfCells(g, cells, i + 1)

\* lines 331 and 364 with sets that are never filled
NeverVisible(entries, uuid) == FALSE

\* lines 331 and 364: visible_..._uuid.has(entity_uuid.uuid)
AlreadyVisible(entries, uuid) == \E k \in DOMAIN entries : entries[k][1] = uuid

\* lines 328-384: the body of the inner loop for one entity uuid
VisitUuid(ps, wos, player_uuid, acc, entity_uuid_string) ==
  LET entity_uuid == parse_entity_type_uuid(entity_uuid_string)
      vision_aabb == ps[player_uuid].vision_aabb
  IN IF entity_uuid.type = PLAYER_BLOB
     THEN IF AlreadyVisible(acc.other_blobs, entity_uuid.uuid) THEN acc
          ELSE IF entity_uuid.uuid = player_uuid THEN acc
          ELSE IF entity_uuid.uuid \notin DOMAIN ps THEN acc
          ELSE LET other_player == ps[entity_uuid.uuid]
                   seen == [acc EXCEPT !.player_metadata = @ \cup {entity_uuid.uuid}]
               IN IF entity_uuid.blob_index + 1 \notin DOMAIN other_player.blobs THEN seen
                  ELSE LET blob == other_player.blobs[entity_uuid.blob_index + 1]
                       IN IF ~_overlaps(vision_aabb, blob.aabb) THEN seen
                          ELSE [seen EXCEPT !.other_blobs =
                                  Append(@, <<entity_uuid.uuid,
                                              [x |-> blob.x, y |-> blob.y, r |-> blob.r,
                                               vx |-> blob.vx, vy |-> blob.vy]>>)]
     ELSE IF AlreadyVisible(acc.world_objects, entity_uuid.uuid) THEN acc
          ELSE IF entity_uuid.uuid \notin DOMAIN wos THEN acc
          ELSE LET world_object == wos[entity_uuid.uuid]
               IN IF ~_overlaps(vision_aabb, world_object.aabb) THEN acc
                  ELSE [acc EXCEPT !.world_objects =
                          Append(@, <<entity_uuid.uuid,
                                      [type |-> world_object.type, x |-> world_object.x,
                                       y |-> world_object.y, r |-> world_object.r]>>)]

RECURSIVE VisitUuids(_, _, _, _, _, _)
VisitUuids(ps, wos, player_uuid, acc, uuids, i) ==
  IF i > Len(uuids) THEN acc
  ELSE VisitUuids(ps, wos, player_uuid,
                  VisitUuid(ps, wos, player_uuid, acc, uuids[i]), uuids, i + 1)

\* _visibleEntities over the given grid, players and world objects
VisibleEntitiesIn(g, ps, wos, player_uuid) ==
  LET vision_cells == CellSeq(ps[player_uuid].vision_aabb)
  IN VisitUuids(ps, wos, player_uuid,
                [other_blobs |-> <<>>, world_objects |-> <<>>, player_metadata |-> {}],
                UuidsOfCells(g, vision_cells, 1), 1)

_visibleEntities(player_uuid) == VisibleEntitiesIn(grid, players, world_objects, player_uuid)

----------------------------------------------------------------------------
(* _updatePlayersLocations                                                 *)

\* dt * TPS with dt at the clamp of _startTickLoop: every tick starts at
\* least 1000/TPS ms after the one before
TimesDtTps(d) == TDiv(d * DT_CLAMP_MS * TPS, 1000)

\* lines 591-600: the displacement, cut to the length r when it is longer
Displacement(dx, dy, r) ==
  LET mass == r * r
      magnitude_sq == dx * dx + dy * dy
  IN IF magnitude_sq # 0 /\ magnitude_sq > mass
     THEN <<TDiv(dx * r, Sqrt(magnitude_sq)), TDiv(dy * r, Sqrt(magnitude_sq))>>
     ELSE <<dx, dy>>

\* lines 601-608
ClampToWorld(position, r) == Max(Min(position, Px(WORLD_RADIUS) - r), -Px(WORLD_RADIUS) + r)

CellBefore(a, b) ==
  LET p == _unhashCell(a)
      q == _unhashCell(b)
  IN p.y < q.y \/ (p.y = q.y /\ p.x < q.x)

RECURSIVE CellsInOrder(_)
\* the cells of a _cells set in the order the set is walked (the order
\* _cellsIntersectingAabb added them)
CellsInOrder(S) ==
  IF S = {} THEN <<>>
  ELSE LET m == CHOOSE a \in S : \A b \in S \ {a} : CellBefore(a, b)
       IN <<m>> \o CellsInOrder(S \ {m})

RECURSIVE RemoveFromCellsKeepingEmpty(_, _, _, _)
\* RemoveFromCells without lines 635-637: an emptied cell stays in the map
RemoveFromCellsKeepingEmpty(g, cells, i, blob_uuid) ==
  IF i > Len(cells) THEN [grid |-> g, crashed |-> FALSE]
  ELSE IF cells[i] \notin DOMAIN g THEN [grid |-> g, crashed |-> TRUE]
  ELSE RemoveFromCellsKeepingEmpty(MapSet(g, cells[i], g[cells[i]] \ {blob_uuid}),
                                   cells, i + 1, blob_uuid)

RECURSIVE RemoveFromCellsDroppingCell(_, _, _, _)
\* RemoveFromCells with the test of line 635 left out: the cell the blob has
\* left is deleted with whatever it still holds
RemoveFromCellsDroppingCell(g, cells, i, blob_uuid) ==
  IF i > Len(cells) THEN [grid |-> g, crashed |-> FALSE]
  ELSE IF cells[i] \notin DOMAIN g THEN [grid |-> g, crashed |-> TRUE]
  ELSE RemoveFromCellsDroppingCell(MapDelete(g, cells[i]), cells, i + 1, blob_uuid)

RECURSIVE RemoveFromCells(_, _, _, _)
\* lines 628-638: this.grid.get(c)! of an absent cell is undefined, and
\* old_cell.delete throws
RemoveFromCells(g, cells, i, blob_uuid) ==
  IF i > Len(cells) THEN [grid |-> g, crashed |-> FALSE]
  ELSE IF cells[i] \notin DOMAIN g THEN [grid |-> g, crashed |-> TRUE]
  ELSE LET old_cell == g[cells[i]] \ {blob_uuid}
       IN RemoveFromCells(IF old_cell = {} THEN MapDelete(g, cells[i])
                                           ELSE MapSet(g, cells[i], old_cell),
                          cells, i + 1, blob_uuid)

\* Reindex without line 647 (blob._cells = blob_cells): the blob keeps the
\* cell set it had
ReindexKeepingCells(g, blob, blob_uuid, blob_cells) ==
  LET gone == CellsInOrder(blob._cells \ blob_cells)
      removed == RemoveFromCells(g, gone, 1, blob_uuid)
      unchanged == Cardinality(blob._cells) = Cardinality(blob_cells) /\ gone = <<>>
  IN IF removed.crashed \/ unchanged
     THEN [grid |-> removed.grid, crashed |-> removed.crashed, _cells |-> blob._cells]
     ELSE [grid |-> AddToCells(removed.grid, blob_cells \ blob._cells, blob_uuid),
           crashed |-> FALSE, _cells |-> blob._cells]

\* Reindex without lines 632-637: the handle stays in the cells the blob
\* has left
ReindexLeavingHandle(g, blob, blob_uuid, blob_cells) ==
  LET gone == CellsInOrder(blob._cells \ blob_cells)
      unchanged == Cardinality(blob._cells) = Cardinality(blob_cells) /\ gone = <<>>
  IN IF unchanged
     THEN [grid |-> g, crashed |-> FALSE, _cells |-> blob._cells]
     ELSE [grid |-> AddToCells(g, blob_cells \ blob._cells, blob_uuid),
           crashed |-> FALSE, _cells |-> blob_cells]

\* lines 619-647: update the cells of one blob
Reindex(g, blob, blob_uuid, blob_cells) ==
  LET gone == CellsInOrder(blob._cells \ blob_cells)
      removed == RemoveFromCells(g, gone, 1, blob_uuid)
      unchanged == Cardinality(blob._cells) = Cardinality(blob_cells) /\ gone = <<>>
  IN IF removed.crashed \/ unchanged
     THEN [grid |-> removed.grid, crashed |-> removed.crashed, _cells |-> blob._cells]
     ELSE [grid |-> AddToCells(removed.grid, blob_cells \ blob._cells, blob_uuid),
           crashed |-> FALSE, _cells |-> blob_cells]

\* lines 584-648: the body of the loop over the blobs of one player
UpdateBlob(player_uuid, st, i) ==
  LET player == st.player
      blob == player.blobs[i]
      blob_world_x == player.com_x + player.client_x
      blob_world_y == player.com_y - player.client_y
      d == Displacement(blob_world_x - blob.x, blob_world_y - blob.y, blob.r)
      mass == blob.r * blob.r
      x == ClampToWorld(blob.x + TimesDtTps(d[1]), blob.r)
      y == ClampToWorld(blob.y + TimesDtTps(d[2]), blob.r)
      blob_aabb == sweeping_aabb(x, y, blob.vx, blob.vy, blob.r, blob.r)
      blob_uuid == stringify_entity_type_uuid(
                     [type |-> PLAYER_BLOB, uuid |-> player_uuid, blob_index |-> i - 1])
      re == Reindex(st.grid, blob, blob_uuid, _cellsIntersectingAabb(blob_aabb))
  IN [player |-> [player EXCEPT !.blobs[i] =
                    [blob EXCEPT !.x = x, !.y = y, !.aabb = blob_aabb, !._cells = re._cells]],
      grid |-> re.grid,
      crashed |-> re.crashed,
      radius |-> st.radius + blob.r,
      total_mass |-> st.total_mass + mass,
      total_x |-> st.total_x + x * mass,
      total_y |-> st.total_y + y * mass]

RECURSIVE UpdateBlobs(_, _, _)
UpdateBlobs(player_uuid, st, i) ==
  IF i > Len(st.player.blobs) \/ st.crashed THEN st
  ELSE UpdateBlobs(player_uuid, UpdateBlob(player_uuid, st, i), i + 1)

\* lines 650-662 without lines 652-653: the centre of mass stays where it was
RecentreKeepingCom(player, radius, total_mass, total_x, total_y) ==
  LET zoom_factor == _calculatePlayerScale(radius)
  IN [player EXCEPT
        !.zoom_factor = zoom_factor,
        !.vision_aabb =
          calculate_aabb(player.com_x, player.com_y,
                         TDiv(Px(CLIENT_WIDTH_PIXELS \div 2) * zoom_factor, Million),
                         TDiv(Px(CLIENT_HEIGHT_PIXELS \div 2) * zoom_factor, Million))]

\* lines 650-662: zoom factor, centre of mass and vision box of a player
Recentre(player, radius, total_mass, total_x, total_y) ==
  LET zoom_factor == _calculatePlayerScale(radius)
      com_x == TDiv(total_x, total_mass)
      com_y == TDiv(total_y, total_mass)
  IN [player EXCEPT
        !.zoom_factor = zoom_factor,
        !.com_x = com_x,
        !.com_y = com_y,
        !.vision_aabb =
          calculate_aabb(com_x, com_y,
                         TDiv(Px(CLIENT_WIDTH_PIXELS \div 2) * zoom_factor, Million),
                         TDiv(Px(CLIENT_HEIGHT_PIXELS \div 2) * zoom_factor, Million))]

\* lines 578-663: the body of the loop over the players
UpdatePlayer(player_uuid, w) ==
  LET st == UpdateBlobs(player_uuid,
                        [player |-> w.players[player_uuid], grid |-> w.grid,
                         crashed |-> FALSE, radius |-> 0, total_mass |-> 0,
                         total_x |-> 0, total_y |-> 0], 1)
  IN [players |-> [w.players EXCEPT ![player_uuid] =
                     IF st.crashed THEN st.player
                     ELSE Recentre(st.player, st.radius, st.total_mass, st.total_x, st.total_y)],
      grid |-> st.grid,
      crashed |-> st.crashed]

RECURSIVE UpdatePlayers(_, _, _)
UpdatePlayers(order, w, i) ==
  IF i > Len(order) \/ w.crashed THEN w
  ELSE UpdatePlayers(order, UpdatePlayer(order[i], w), i + 1)

\* _updatePlayersLocations(dt).  An exception thrown in it rejects _tick and
\* _startTickLoop before the next tick is scheduled: the tick loop is over.
UpdatePlayersLocations ==
  /\ pc = "updatePlayersLocations"
  /\ LET w == UpdatePlayers(player_order,
                            [players |-> players, grid |-> grid, crashed |-> FALSE], 1)
     IN /\ players' = w.players
        /\ grid' = w.grid
        /\ dropped_cells' = DOMAIN grid \ DOMAIN w.grid
        /\ IF w.crashed
           THEN /\ pc' = "crashed"
                /\ ticks_in_progress' = ticks_in_progress - 1
                /\ UNCHANGED <<steps_done, spawn_queue, position_updates, chase_target, last_message, sessions,
                 client_msgs, failed_ticks, UtilityVars>>
           ELSE /\ pc' = "spawnPlayer"
                /\ steps_done' = Append(steps_done, "updatePlayersLocations")
                /\ spawn_queue' = spawning_players
                /\ UNCHANGED ticks_in_progress
  /\ UNCHANGED <<player_order, world_objects, spawning_players, food_amount, tick_count,
                 total_food_spawning_radius, failures, food_radius, next_food_uuid,
                 search, join_game_msgs, tick_updates, broadcast_queue, position_updates,
                 chase_target, last_message, sessions, client_msgs, failed_ticks, UtilityVars>>

----------------------------------------------------------------------------
(* _spawnPlayer                                                            *)

\* lines 437-441: the next uuid of the for-of over spawning_players
SpawnPlayerIteration ==
  /\ pc = "spawnPlayer"
  /\ spawn_queue # <<>>
  /\ search' = SearchStart(Px(INITIAL_PLAYER_RADIUS), PLAYER_LOCATION_ATTEMPTS, PLAYER_BLOB)
  /\ pc' = "search"
  /\ UNCHANGED <<grid, players, player_order, world_objects, spawning_players,
                 food_amount, tick_count, steps_done, total_food_spawning_radius,
                 failures, food_radius, next_food_uuid, spawn_queue, join_game_msgs,
                 tick_updates, dropped_cells, broadcast_queue, ticks_in_progress,
                 position_updates, chase_target, last_message, sessions, client_msgs,
                 failed_ticks, UtilityVars>>

\* the ticks in a row, up to now, whose search found no place for the uuid
FailedTicks(uuid) == IF uuid \in DOMAIN failed_ticks THEN failed_ticks[uuid] ELSE 0

\* lines 443-446 with the uuid taken out of spawning_players
PlayerFailedDropping ==
  /\ pc = "searchDone"
  /\ search.entity = PLAYER_BLOB
  /\ ~search.result.success
  /\ spawn_queue' = Tail(spawn_queue)
  /\ spawning_players' = SelectSeq(spawning_players, LAMBDA u : u # Head(spawn_queue))
  /\ failed_ticks' = MapSet(failed_ticks, Head(spawn_queue), FailedTicks(Head(spawn_queue)) + 1)
  /\ search' = NoSearch
  /\ pc' = "spawnPlayer"
  /\ UNCHANGED <<grid, players, player_order, world_objects,
                 food_amount, tick_count, steps_done, total_food_spawning_radius,
                 failures, food_radius, next_food_uuid, join_game_msgs, tick_updates, dropped_cells,
                 broadcast_queue, ticks_in_progress, position_updates, chase_target,
                 last_message, sessions, client_msgs, UtilityVars>>

\* lines 443-446 with line 478 run before the continue
PlayerFailedFeeding ==
  /\ pc = "searchDone"
  /\ search.entity = PLAYER_BLOB
  /\ ~search.result.success
  /\ spawn_queue' = Tail(spawn_queue)
  /\ food_amount' = food_amount + Px(FOOD_PER_PLAYER)
  /\ failed_ticks' = MapSet(failed_ticks, Head(spawn_queue), FailedTicks(Head(spawn_queue)) + 1)
  /\ search' = NoSearch
  /\ pc' = "spawnPlayer"
  /\ UNCHANGED <<grid, players, player_order, world_objects, spawning_players,
                 tick_count, steps_done, total_food_spawning_radius,
                 failures, food_radius, next_food_uuid, join_game_msgs, tick_updates, dropped_cells,
                 broadcast_queue, ticks_in_progress, position_updates, chase_target,
                 last_message, sessions, client_msgs, UtilityVars>>

\* lines 443-446
PlayerFailed ==
  /\ pc = "searchDone"
  /\ search.entity = PLAYER_BLOB
  /\ ~search.result.success
  /\ spawn_queue' = Tail(spawn_queue)
  /\ failed_ticks' = MapSet(failed_ticks, Head(spawn_queue), FailedTicks(Head(spawn_queue)) + 1)
  /\ search' = NoSearch
  /\ pc' = "spawnPlayer"
  /\ UNCHANGED <<grid, players, player_order, world_objects, spawning_players,
                 food_amount, tick_count, steps_done, total_food_spawning_radius,
                 failures, food_radius, next_food_uuid, join_game_msgs, tick_updates, dropped_cells,
                 broadcast_queue, ticks_in_progress, position_updates, chase_target,
                 last_message, sessions, client_msgs, UtilityVars>>

\* lines 447-472: the Player record of a new player
NewPlayer(location) ==
  LET zoom_factor == _calculatePlayerScale(Px(INITIAL_PLAYER_RADIUS))
  IN [blobs |-> <<[aabb |-> location.aabb, x |-> location.x, y |-> location.y,
                   _cells |-> location._cells, r |-> Px(INITIAL_PLAYER_RADIUS),
                   vx |-> 0, vy |-> 0]>>,
      client_x |-> Px(CLIENT_WIDTH_PIXELS \div 2),
      client_y |-> Px(CLIENT_HEIGHT_PIXELS \div 2),
      com_x |-> location.x,
      com_y |-> location.y,
      vision_aabb |->
        calculate_aabb(location.x, location.y,
                       TDiv(Px(CLIENT_WIDTH_PIXELS \div 2) * zoom_factor, Million),
                       TDiv(Px(CLIENT_HEIGHT_PIXELS \div 2) * zoom_factor, Million)),
      zoom_factor |-> zoom_factor]

\* the data of a join_game or tick_update message (lines 485-499, 708-720)
MessageData(ps, player_uuid, visible_entries) ==
  [com_x |-> ps[player_uuid].com_x,
   com_y |-> ps[player_uuid].com_y,
   self_blobs |-> [i \in DOMAIN ps[player_uuid].blobs |->
                     [x |-> ps[player_uuid].blobs[i].x, y |-> ps[player_uuid].blobs[i].y,
                      r |-> ps[player_uuid].blobs[i].r]],
   zoom_factor |-> ps[player_uuid].zoom_factor,
   other_blobs |-> visible_entries.other_blobs,
   world_objects |-> visible_entries.world_objects,
   world_radius |-> Px(WORLD_RADIUS)]

\* PlayerPlaced without the publish of lines 480-502
PlayerPlacedSilently ==
  /\ pc = "searchDone"
  /\ search.entity = PLAYER_BLOB
  /\ search.result.success
  /\ LET player_uuid == Head(spawn_queue)
         ps == MapSet(players, player_uuid, NewPlayer(search.result.location))
         visible_entries == VisibleEntitiesIn(grid, ps, world_objects, player_uuid)
     IN /\ players' = ps
        /\ player_order' = IF player_uuid \in DOMAIN players THEN player_order
                           ELSE Append(player_order, player_uuid)
        /\ spawning_players' = SelectSeq(spawning_players, LAMBDA u : u # player_uuid)
        /\ join_game_msgs' = join_game_msgs
  /\ food_amount' = food_amount + Px(FOOD_PER_PLAYER)
  /\ spawn_queue' = Tail(spawn_queue)
  /\ failed_ticks' = MapSet(failed_ticks, Head(spawn_queue), 0)
  /\ search' = NoSearch
  /\ pc' = "spawnPlayer"
  /\ UNCHANGED <<grid, world_objects, tick_count, steps_done, total_food_spawning_radius,
                 failures, food_radius, next_food_uuid, tick_updates, dropped_cells,
                 broadcast_queue, ticks_in_progress, position_updates, chase_target,
                 last_message, sessions, client_msgs, UtilityVars>>

\* lines 456-502
PlayerPlaced ==
  /\ pc = "searchDone"
  /\ search.entity = PLAYER_BLOB
  /\ search.result.success
  /\ LET player_uuid == Head(spawn_queue)
         ps == MapSet(players, player_uuid, NewPlayer(search.result.location))
         visible_entries == VisibleEntitiesIn(grid, ps, world_objects, player_uuid)
     IN /\ players' = ps
        /\ player_order' = IF player_uuid \in DOMAIN players THEN player_order
                           ELSE Append(player_order, player_uuid)
        /\ spawning_players' = SelectSeq(spawning_players, LAMBDA u : u # player_uuid)
        /\ join_game_msgs' = MapSet(join_game_msgs, player_uuid,
                                    MessageData(ps, player_uuid, visible_entries))
  /\ food_amount' = food_amount + Px(FOOD_PER_PLAYER)
  /\ spawn_queue' = Tail(spawn_queue)
  /\ failed_ticks' = MapSet(failed_ticks, Head(spawn_queue), 0)
  /\ search' = NoSearch
  /\ pc' = "spawnPlayer"
  /\ UNCHANGED <<grid, world_objects, tick_count, steps_done, total_food_spawning_radius,
                 failures, food_radius, next_food_uuid, tick_updates, dropped_cells,
                 broadcast_queue, ticks_in_progress, position_updates, chase_target,
                 last_message, sessions, client_msgs, UtilityVars>>

\* the for-of of _spawnPlayer is over; _broadcastTickUpdate runs
SpawnPlayerDone ==
  /\ pc = "spawnPlayer"
  /\ spawn_queue = <<>>
  /\ steps_done' = Append(steps_done, "spawnPlayer")
  /\ broadcast_queue' = player_order
  /\ pc' = "broadcastTickUpdate"
  /\ UNCHANGED <<grid, players, player_order, world_objects, spawning_players,
                 food_amount, tick_count, total_food_spawning_radius, failures,
                 food_radius, next_food_uuid, search, spawn_queue, join_game_msgs,
                 tick_updates, dropped_cells, ticks_in_progress, position_updates,
                 chase_target, last_message, sessions, client_msgs, failed_ticks, UtilityVars>>

----------------------------------------------------------------------------
(* _broadcastTickUpdate                                                    *)

\* BroadcastTickUpdate with a _visibleEntities that reads a cell of the
\* vision box with get-or-create (this.grid.set(cell_hash, new Set()) in
\* place of the ?? [] of line 328)
BroadcastTickUpdateCreatingCells ==
  /\ pc = "broadcastTickUpdate"
  /\ broadcast_queue # <<>>
  /\ LET player_uuid == Head(broadcast_queue)
     IN tick_updates' = MapSet(tick_updates, player_uuid,
                               MessageData(players, player_uuid,
                                           _visibleEntities(player_uuid)))
  /\ broadcast_queue' = Tail(broadcast_queue)
  /\ grid' = [k \in DOMAIN grid \cup _cellsIntersectingAabb(players[Head(broadcast_queue)].vision_aabb) |->
                IF k \in DOMAIN grid THEN grid[k] ELSE {}]
  /\ UNCHANGED <<players, player_order, world_objects, spawning_players,
                 food_amount, pc, tick_count, steps_done, total_food_spawning_radius,
                 failures, food_radius, next_food_uuid, search, spawn_queue,
                 join_game_msgs, dropped_cells, ticks_in_progress, position_updates,
                 chase_target, last_message, sessions, client_msgs, failed_ticks, UtilityVars>>

\* lines 700-724: one pass through the for-of over this.players: the
\* tick_update of one player is computed and its publish is started
BroadcastTickUpdate ==
  /\ pc = "broadcastTickUpdate"
  /\ broadcast_queue # <<>>
  /\ LET player_uuid == Head(broadcast_queue)
     IN tick_updates' = MapSet(tick_updates, player_uuid,
                               MessageData(players, player_uuid,
                                           _visibleEntities(player_uuid)))
  /\ broadcast_queue' = Tail(broadcast_queue)
  /\ UNCHANGED <<grid, players, player_order, world_objects, spawning_players,
                 food_amount, pc, tick_count, steps_done, total_food_spawning_radius,
                 failures, food_radius, next_food_uuid, search, spawn_queue,
                 join_game_msgs, dropped_cells, ticks_in_progress, position_updates,
                 chase_target, last_message, sessions, client_msgs, failed_ticks, UtilityVars>>

\* line 725 and line 733: every payload is computed; _tick awaits the
\* publishes of _spawnPlayer and of _broadcastTickUpdate
BroadcastDone ==
  /\ pc = "broadcastTickUpdate"
  /\ broadcast_queue = <<>>
  /\ steps_done' = Append(steps_done, "broadcastTickUpdate")
  /\ pc' = "publishing"
  /\ UNCHANGED <<grid, players, player_order, world_objects, spawning_players,
                 food_amount, tick_count, total_food_spawning_radius, failures,
                 food_radius, next_food_uuid, search, spawn_queue, join_game_msgs,
                 dropped_cells, tick_updates, broadcast_queue, ticks_in_progress,
                 position_updates, chase_target, last_message, sessions, client_msgs,
                 failed_ticks, UtilityVars>>

\* lines 733-743: the publishes resolve, _tick returns and _startTickLoop
\* sets the timer of the next tick
PublishesResolve ==
  /\ pc = "publishing"
  /\ pc' = "idle"
  /\ ticks_in_progress' = ticks_in_progress - 1
  /\ UNCHANGED <<grid, players, player_order, world_objects, spawning_players,
                 food_amount, tick_count, steps_done, total_food_spawning_radius,
                 failures, food_radius, next_food_uuid, search, spawn_queue,
                 join_game_msgs, tick_updates, dropped_cells, broadcast_queue,
                 position_updates, chase_target, last_message, sessions, client_msgs,
                 failed_ticks, UtilityVars>>

----------------------------------------------------------------------------
(* The engine                                                              *)

Next ==
  \/ \E uuid \in PlayerUUIDs : JoinGameListener(uuid)
  \/ \E uuid \in PlayerUUIDs, cursor \in CursorSamples :
       PlayerUpdatePositionListener(uuid, cursor[1], cursor[2])
  \/ TickStart
  \/ \E rand \in RadiusSamples : SpawnFoodIteration(rand)
  \/ \E rand \in PositionSamples : SearchAttempt(rand[1], rand[2])
  \/ FoodPlaced
  \/ FoodFailed
  \/ SpawnFoodDone
  \/ UpdatePlayersLocations
  \/ SpawnPlayerIteration
  \/ PlayerPlaced
  \/ PlayerFailed
  \/ SpawnPlayerDone
  \/ BroadcastTickUpdate
  \/ BroadcastDone
  \/ PublishesResolve

Spec == Init /\ [][Next]_vars

----------------------------------------------------------------------------
(* One player chasing a target: the engine with one join_game message and  *)
(* one update_position message, the cursor at the middle of the right edge *)
(* of the viewport, followed for MaxChaseTicks ticks.                      *)

MaxChaseTicks == 6

ChaseTickStart == TickWithin(MaxChaseTicks)

ChaseUpdatePosition ==
  /\ 1 \notin position_updates
  /\ PlayerUpdatePositionListener(1, CLIENT_WIDTH_PIXELS, CLIENT_HEIGHT_PIXELS \div 2)

ChaseNext ==
  \/ JoinGameListener(1)
  \/ ChaseUpdatePosition
  \/ ChaseTickStart
  \/ \E rand \in RadiusSamples : SpawnFoodIteration(rand)
  \/ \E rand \in PositionSamples : SearchAttempt(rand[1], rand[2])
  \/ FoodPlaced
  \/ FoodFailed
  \/ SpawnFoodDone
  \/ UpdatePlayersLocations
  \/ SpawnPlayerIteration
  \/ PlayerPlaced
  \/ SpawnPlayerDone
  \/ BroadcastTickUpdate
  \/ BroadcastDone
  \/ PublishesResolve

ChaseSpec == Init /\ [][ChaseNext]_vars

----------------------------------------------------------------------------
(* Food next to food: the engine with one join_game message, one           *)
(* update_position message that puts the cursor on the middle of the       *)
(* viewport, and positions drawn so that a second Food item collides with  *)
(* the first beside a cell that is not in the grid.                        *)

MaxRetargetTicks == 2
MaxRetargetFood == 2

\* with radius 3 the samples 453 and 451 give y = -93.9 and y = -97.9: the
\* first padded box is in the row of cells -1 alone, the second reaches into
\* the row -2; with radius 20 the sample 468 gives y = -63.4
RetargetPositionSamples == {<<462, 468>>, <<462, 453>>, <<462, 451>>}

RetargetTickStart == TickWithin(MaxRetargetTicks)

RetargetUpdatePosition ==
  /\ 1 \notin position_updates
  /\ PlayerUpdatePositionListener(1, CLIENT_WIDTH_PIXELS \div 2, CLIENT_HEIGHT_PIXELS \div 2)

RetargetSearchAttempt ==
  \E rand \in RetargetPositionSamples : SearchAttemptWithin(MaxRetargetFood, rand[1], rand[2])

RetargetNext ==
  \/ JoinGameListener(1)
  \/ RetargetUpdatePosition
  \/ RetargetTickStart
  \/ \E rand \in RadiusSamples : SpawnFoodIteration(rand)
  \/ RetargetSearchAttempt
  \/ FoodPlaced
  \/ FoodFailed
  \/ SpawnFoodDone
  \/ UpdatePlayersLocations
  \/ SpawnPlayerIteration
  \/ PlayerPlaced
  \/ SpawnPlayerDone
  \/ BroadcastTickUpdate
  \/ BroadcastDone
  \/ PublishesResolve

RetargetSpec == Init /\ [][RetargetNext]_vars

----------------------------------------------------------------------------
(* The election of part_002: servers that call election(key) once each for *)
(* one key, write their heartbeats and may stop; a step is one command     *)
(* carried out by the Redis server and what the caller does with the reply.*)

HEARTBEAT_INTERVAL_MS == 1000
LEADER_TIMEOUT_MS == 5000

ElectionUnchanged == UNCHANGED <<EngineVars, cell_call, ManagerVars>>

\* the clock moves on by the interval of the heartbeats
ClockTick ==
  /\ now < MaxClockTicks * HEARTBEAT_INTERVAL_MS
  /\ now' = now + HEARTBEAT_INTERVAL_MS
  /\ UNCHANGED <<election_leader, server_heartbeat, servers_up, election_calls>>
  /\ ElectionUnchanged

\* lines 14-19: the interval callback of a running server
Heartbeat(s) ==
  /\ s \in servers_up
  /\ now >= HEARTBEAT_INTERVAL_MS
  /\ server_heartbeat[s] # now
  /\ server_heartbeat' = [server_heartbeat EXCEPT ![s] = now]
  /\ UNCHANGED <<election_leader, now, servers_up, election_calls>>
  /\ ElectionUnchanged

\* the process of a server ends: no heartbeat of it follows (a server that
\* ends inside a call is one whose call takes no further step)
ServerStops(s) ==
  /\ s \in servers_up
  /\ election_calls[s].pc = "returned"
  /\ servers_up' = servers_up \ {s}
  /\ UNCHANGED <<election_leader, server_heartbeat, now, election_calls>>
  /\ ElectionUnchanged

\* line 21: election(key) is called
ElectionCall(s) ==
  /\ s \in servers_up
  /\ election_calls[s].pc = "idle"
  /\ election_calls' = [election_calls EXCEPT ![s].pc = "get_leader"]
  /\ UNCHANGED <<election_leader, server_heartbeat, now, servers_up>>
  /\ ElectionUnchanged

\* lines 27-28: GET election_leader_{key}
ElectionGetLeader(s) ==
  /\ s \in servers_up
  /\ election_calls[s].pc = "get_leader"
  /\ election_calls' =
       [election_calls EXCEPT
          ![s].current_leader = election_leader,
          ![s].pc = IF election_leader # NoServer THEN "get_heartbeat" ELSE "set_leader"]
  /\ UNCHANGED <<election_leader, server_heartbeat, now, servers_up>>
  /\ ElectionUnchanged

\* line 34: no heartbeat, or one older than the timeout
HeartbeatStale(current_leader_heartbeat) ==
  \/ current_leader_heartbeat = NoHeartbeat
  \/ now - current_leader_heartbeat > LEADER_TIMEOUT_MS

\* lines 29-35 and 43-44: GET server_heartbeat_{current_leader}
ElectionGetHeartbeat(s) ==
  /\ s \in servers_up
  /\ election_calls[s].pc = "get_heartbeat"
  /\ LET current_leader_heartbeat == server_heartbeat[election_calls[s].current_leader]
     IN election_calls' =
          IF HeartbeatStale(current_leader_heartbeat)
          THEN [election_calls EXCEPT ![s].pc = "take_over"]
          ELSE [election_calls EXCEPT ![s].pc = "returned", ![s].result = "follower"]
  /\ UNCHANGED <<election_leader, server_heartbeat, now, servers_up>>
  /\ ElectionUnchanged

\* line 37: SET election_leader_{key}, the first command of the Promise.all
ElectionTakeOver(s) ==
  /\ s \in servers_up
  /\ election_calls[s].pc = "take_over"
  /\ election_leader' = s
  /\ election_calls' = [election_calls EXCEPT ![s].pc = "del_heartbeat"]
  /\ UNCHANGED <<server_heartbeat, now, servers_up>>
  /\ ElectionUnchanged

\* lines 38-40: DEL server_heartbeat_{current_leader}, and the return
ElectionDelHeartbeat(s) ==
  /\ s \in servers_up
  /\ election_calls[s].pc = "del_heartbeat"
  /\ server_heartbeat' =
       [server_heartbeat EXCEPT ![election_calls[s].current_leader] = NoHeartbeat]
  /\ election_calls' = [election_calls EXCEPT ![s].pc = "returned", ![s].result = "leader"]
  /\ UNCHANGED <<election_leader, now, servers_up>>
  /\ ElectionUnchanged

\* lines 48-49: SET election_leader_{key} when no leader was recorded
ElectionSetLeader(s) ==
  /\ s \in servers_up
  /\ election_calls[s].pc = "set_leader"
  /\ election_leader' = s
  /\ election_calls' = [election_calls EXCEPT ![s].pc = "returned", ![s].result = "leader"]
  /\ UNCHANGED <<server_heartbeat, now, servers_up>>
  /\ ElectionUnchanged

ElectionNext ==
  \/ ClockTick
  \/ \E s \in Servers : Heartbeat(s)
  \/ \E s \in Servers : ServerStops(s)
  \/ \E s \in Servers : ElectionCall(s)
  \/ \E s \in Servers : ElectionGetLeader(s)
  \/ \E s \in Servers : ElectionGetHeartbeat(s)
  \/ \E s \in Servers : ElectionTakeOver(s)
  \/ \E s \in Servers : ElectionDelHeartbeat(s)
  \/ \E s \in Servers : ElectionSetLeader(s)

ElectionSpec == Init /\ [][ElectionNext]_vars

----------------------------------------------------------------------------
(* The WebSocketManager of part_011: one manager, the events of its        *)
(* socket, the timers of scheduleReconnect and calls of subscribe.         *)

MAX_RETRIES == 10

SubscriptionIds == 1 .. MaxSubscriptions

ManagerUnchanged == UNCHANGED <<EngineVars, cell_call, ElectionVars>>

\* the fields a method of the manager may write
Manager ==
  [retryCount |-> retryCount, isReconnecting |-> isReconnecting, ws |-> ws,
   reconnect_timers |-> reconnect_timers, sockets_created |-> sockets_created,
   subscriptions_sent |-> subscriptions_sent]

BecomesManager(m) ==
  /\ retryCount' = m.retryCount
  /\ isReconnecting' = m.isReconnecting
  /\ ws' = m.ws
  /\ reconnect_timers' = m.reconnect_timers
  /\ sockets_created' = m.sockets_created
  /\ subscriptions_sent' = m.subscriptions_sent

\* lines 54-76
scheduleReconnect(m) ==
  IF m.retryCount >= MAX_RETRIES THEN m
  ELSE [m EXCEPT !.isReconnecting = TRUE,
                 !.retryCount = @ + 1,
                 !.reconnect_timers = @ + 1]

\* lines 18-28; throws: new WebSocket(this.url) throws
connect(m, throws) ==
  IF m.isReconnecting THEN m
  ELSE IF throws THEN scheduleReconnect(m)
  ELSE [m EXCEPT !.ws = "connecting",
                 !.sockets_created = @ + 1,
                 !.subscriptions_sent = {}]

\* the owner of the manager calls connect() after the constructor
ManagerConnect ==
  /\ ws = "null"
  /\ sockets_created = 0
  /\ reconnect_timers = 0
  /\ ~isReconnecting
  /\ \E throws \in BOOLEAN : BecomesManager(connect(Manager, throws))
  /\ UNCHANGED subscriptions
  /\ ManagerUnchanged

\* lines 31-36 and 89-94: the open event of the socket
SocketOpens ==
  /\ ws = "connecting"
  /\ BecomesManager([Manager EXCEPT !.ws = "open",
                                     !.retryCount = 0,
                                     !.isReconnecting = FALSE,
                                     !.subscriptions_sent = subscriptions])
  /\ UNCHANGED subscriptions
  /\ ManagerUnchanged

\* lines 42-47: the close event of the socket
SocketCloses ==
  /\ ws \in {"connecting", "open"}
  /\ LET closed == [Manager EXCEPT !.ws = "closed"]
     IN BecomesManager(IF isReconnecting THEN closed ELSE scheduleReconnect(closed))
  /\ UNCHANGED subscriptions
  /\ ManagerUnchanged

\* lines 73-75: a timer of scheduleReconnect fires
ReconnectTimerFires ==
  /\ reconnect_timers > 0
  /\ \E throws \in BOOLEAN :
       BecomesManager(connect([Manager EXCEPT !.reconnect_timers = @ - 1], throws))
  /\ UNCHANGED subscriptions
  /\ ManagerUnchanged

\* lines 78-87
Subscribe(id) ==
  /\ id \notin subscriptions
  /\ subscriptions' = subscriptions \cup {id}
  /\ subscriptions_sent' = IF ws = "open" THEN subscriptions_sent \cup {id}
                                          ELSE subscriptions_sent
  /\ UNCHANGED <<retryCount, isReconnecting, ws, reconnect_timers, sockets_created>>
  /\ ManagerUnchanged

ManagerNext ==
  \/ ManagerConnect
  \/ SocketOpens
  \/ SocketCloses
  \/ ReconnectTimerFires
  \/ \E id \in SubscriptionIds : Subscribe(id)

ManagerSpec == Init /\ [][ManagerNext]_vars

----------------------------------------------------------------------------
(* The cell key: _hashCell called on a pair of 32-bit signed cell          *)
(* coordinates, and _unhashCell called on the key it returned.             *)

MinInt32 == -2147483647 - 1
MaxInt32 == 2147483647

\* the coordinates the calls are made with: the ends of the 32-bit range,
\* both sides of zero and both sides of a 16-bit carry
CoordinateSamples ==
  {MinInt32, MinInt32 + 1, -Word - 1, -Word, -Word + 1, -1, 0, 1, Word - 1, Word, Word + 1,
   MaxInt32 - 1, MaxInt32}

HashInit ==
  /\ EngineInit
  /\ \E cx \in CoordinateSamples : \E cy \in CoordinateSamples :
       cell_call = [NoCellCall EXCEPT !.step = "called", !.cx = cx, !.cy = cy]
  /\ ElectionInit
  /\ ManagerInit

\* lines 124-128
HashCellCall ==
  /\ cell_call.step = "called"
  /\ cell_call' = [cell_call EXCEPT !.step = "hashed",
                                    !.hash = _hashCell(cell_call.cx, cell_call.cy)]
  /\ UNCHANGED <<EngineVars, ElectionVars, ManagerVars>>

\* lines 137-145, on the key _hashCell returned
UnhashCellCall ==
  /\ cell_call.step = "hashed"
  /\ cell_call' = [cell_call EXCEPT !.step = "unhashed", !.cell = _unhashCell(cell_call.hash)]
  /\ UNCHANGED <<EngineVars, ElectionVars, ManagerVars>>

HashNext ==
  \/ HashCellCall
  \/ UnhashCellCall

HashSpec == HashInit /\ [][HashNext]_vars

----------------------------------------------------------------------------
(* A join_game that finds no place: the engine with two join_game messages *)
(* and one update_position message that puts the first player's cursor on  *)
(* the middle of its viewport, followed for MaxRetryTicks ticks.           *)

MaxRetryTicks == 12

RetryPositionSamples == {<<462, 462>>, <<462, 452>>}

RetryTickStart == TickWithin(MaxRetryTicks)

RetryUpdatePosition ==
  /\ 1 \notin position_updates
  /\ PlayerUpdatePositionListener(1, CLIENT_WIDTH_PIXELS \div 2, CLIENT_HEIGHT_PIXELS \div 2)

RetryNext ==
  \/ \E uuid \in PlayerUUIDs : JoinGameListener(uuid)
  \/ RetryUpdatePosition
  \/ RetryTickStart
  \/ \E rand \in RadiusSamples : SpawnFoodIteration(rand)
  \/ \E rand \in RetryPositionSamples : SearchAttempt(rand[1], rand[2])
  \/ FoodPlaced
  \/ FoodFailed
  \/ SpawnFoodDone
  \/ UpdatePlayersLocations
  \/ SpawnPlayerIteration
  \/ PlayerPlaced
  \/ PlayerFailed
  \/ SpawnPlayerDone
  \/ BroadcastTickUpdate
  \/ BroadcastDone
  \/ PublishesResolve

RetrySpec == Init /\ [][RetryNext]_vars

----------------------------------------------------------------------------
(* The session gateway (index.ts) in front of the engine.  A join_game     *)
(* request of a client draws a uuid, sets the 10 s timer, subscribes to    *)
(* player:{uuid} and publishes player:join_game; the messages the engine   *)
(* publishes on player:{uuid} are converted and sent on to the client.     *)
(* Time is not measured: a timer that is set may fire at any moment.  A    *)
(* message published on a channel reaches its subscriber, and an await of  *)
(* the gateway is over, before the next tick begins.                       *)

MaxGatewayTicks == 2

\* the pairs of Math.random() results and the cursor drawn behind the gateway
GatewayPositionSamples == {<<462, 462>>, <<452, 452>>}
GatewayCursorSamples == {<<960, 0>>}

\* lines 66-79: the request's uuid, its timer and its subscription
NewSession ==
  [timer |-> "set", subscribed |-> TRUE, leaving |-> FALSE, game_data |-> FALSE,
   open |-> TRUE, player_at_close |-> FALSE,
   join_game_forwarded |-> FALSE, join_game_sending |-> FALSE,
   tick_forwarded |-> 0, closed_at |-> 0]

\* lines 61-79: join_game up to the publish of line 175
GatewayJoinGame(uuid) ==
  /\ ListenersMayRun
  /\ uuid \notin DOMAIN sessions
  /\ \A v \in PlayerUUIDs : v < uuid => v \in DOMAIN sessions
  /\ sessions' = MapSet(sessions, uuid, NewSession)
  /\ client_msgs' = MapSet(client_msgs, uuid, <<>>)
  /\ UNCHANGED <<grid, players, player_order, world_objects, spawning_players,
                 food_amount, pc, tick_count, steps_done, total_food_spawning_radius,
                 failures, food_radius, next_food_uuid, search, spawn_queue,
                 join_game_msgs, tick_updates, dropped_cells, broadcast_queue,
                 ticks_in_progress, position_updates, chase_target, last_message, failed_ticks,
                 UtilityVars>>

\* lines 175-181: the engine's listener gets the player:join_game message
GatewayJoinGameListener(uuid) ==
  /\ uuid \in DOMAIN sessions
  /\ JoinGameListener(uuid)

\* lines 68-77: the timer fires: error 408 to the client, and the call of
\* pubsub_websocket_unsubscribe up to its await
GatewayTimerFires(uuid) ==
  /\ ListenersMayRun
  /\ uuid \in DOMAIN sessions
  /\ sessions[uuid].timer = "set"
  /\ sessions' = [sessions EXCEPT ![uuid].timer = "fired",
                                  ![uuid].leaving = sessions[uuid].subscribed]
  /\ client_msgs' = [client_msgs EXCEPT ![uuid] = Append(@, [type |-> "error", code |-> 408])]
  /\ UNCHANGED <<grid, players, player_order, world_objects, spawning_players,
                 food_amount, pc, tick_count, steps_done, total_food_spawning_radius,
                 failures, food_radius, next_food_uuid, search, spawn_queue,
                 join_game_msgs, tick_updates, dropped_cells, broadcast_queue,
                 ticks_in_progress, position_updates, chase_target, last_message, failed_ticks,
                 UtilityVars>>

\* the conversion of lines 96-97 done a second time on its own result
ToScreenTwice(object, com_x, com_y) ==
  [object EXCEPT !.x = (object.x - com_x + Px(CLIENT_WIDTH_PIXELS \div 2))
                       - com_x + Px(CLIENT_WIDTH_PIXELS \div 2),
                 !.y = com_y - (com_y - object.y + Px(CLIENT_HEIGHT_PIXELS \div 2))
                       + Px(CLIENT_HEIGHT_PIXELS \div 2)]

\* lines 96-97, 103-105, 112-114: world coordinates to screen coordinates
ToScreen(object, com_x, com_y) ==
  [object EXCEPT !.x = object.x - com_x + Px(CLIENT_WIDTH_PIXELS \div 2),
                 !.y = com_y - object.y + Px(CLIENT_HEIGHT_PIXELS \div 2)]

\* lines 90-118 and 133-161: the data sent on to the client
ProcessedMessage(data) ==
  [data EXCEPT
     !.self_blobs = [i \in DOMAIN data.self_blobs |->
                       ToScreen(data.self_blobs[i], data.com_x, data.com_y)],
     !.world_objects = [i \in DOMAIN data.world_objects |->
                          <<data.world_objects[i][1],
                            ToScreen(data.world_objects[i][2], data.com_x, data.com_y)>>],
     !.other_blobs = [i \in DOMAIN data.other_blobs |->
                        <<data.other_blobs[i][1],
                          ToScreen(data.other_blobs[i][2], data.com_x, data.com_y)>>]]

\* a join_game message published on player:{uuid} is on its way
JoinGamePending(uuid) ==
  /\ uuid \in DOMAIN sessions
  /\ sessions[uuid].subscribed
  /\ uuid \in DOMAIN join_game_msgs
  /\ ~sessions[uuid].join_game_forwarded

\* the tick_update the running tick published on player:{uuid} is on its way
TickUpdatePending(uuid) ==
  /\ uuid \in DOMAIN sessions
  /\ sessions[uuid].subscribed
  /\ pc \in {"publishing", "idle"}
  /\ uuid \in DOMAIN tick_updates
  /\ sessions[uuid].tick_forwarded < tick_count

\* line 88 left out
KeepTimeout(timer) == timer

\* line 88: clearTimeout
ClearTimeout(timer) == IF timer = "set" THEN "cleared" ELSE timer

\* lines 79-125: the subscription callback gets a join_game message and
\* runs up to the await of line 125
GatewayForwardJoinGame(uuid) ==
  /\ ListenersMayRun
  /\ JoinGamePending(uuid)
  /\ sessions' = [sessions EXCEPT ![uuid].timer = ClearTimeout(@),
                                  ![uuid].game_data = TRUE,
                                  ![uuid].join_game_forwarded = TRUE,
                                  ![uuid].join_game_sending = TRUE]
  /\ UNCHANGED <<grid, players, player_order, world_objects, spawning_players,
                 food_amount, pc, tick_count, steps_done, total_food_spawning_radius,
                 failures, food_radius, next_food_uuid, search, spawn_queue,
                 join_game_msgs, tick_updates, dropped_cells, broadcast_queue,
                 ticks_in_progress, position_updates, chase_target, last_message,
                 client_msgs, failed_ticks, UtilityVars>>

\* lines 125-130, 166-172: the await of line 125 is over; the converted
\* join_game message is sent to the client
GatewaySendJoinGame(uuid) ==
  /\ ListenersMayRun
  /\ uuid \in DOMAIN sessions
  /\ sessions[uuid].join_game_sending
  /\ sessions' = [sessions EXCEPT ![uuid].join_game_sending = FALSE]
  /\ client_msgs' =
       [client_msgs EXCEPT ![uuid] =
          Append(@, [type |-> "success", method |-> "join_game",
                     data |-> ProcessedMessage(join_game_msgs[uuid]),
                     source |-> join_game_msgs[uuid]])]
  /\ UNCHANGED <<grid, players, player_order, world_objects, spawning_players,
                 food_amount, pc, tick_count, steps_done, total_food_spawning_radius,
                 failures, food_radius, next_food_uuid, search, spawn_queue,
                 join_game_msgs, tick_updates, dropped_cells, broadcast_queue,
                 ticks_in_progress, position_updates, chase_target, last_message,
                 failed_ticks, UtilityVars>>

\* lines 79-86, 131-172: the subscription callback gets a tick_update message
\* (a join_game message of the same tick was published before it)
GatewayForwardTickUpdate(uuid) ==
  /\ ListenersMayRun
  /\ TickUpdatePending(uuid)
  /\ ~JoinGamePending(uuid)
  /\ sessions' = [sessions EXCEPT ![uuid].tick_forwarded = tick_count]
  /\ client_msgs' =
       [client_msgs EXCEPT ![uuid] =
          Append(@, [type |-> "success", method |-> "tick_update",
                     data |-> ProcessedMessage(tick_updates[uuid]),
                     source |-> tick_updates[uuid]])]
  /\ UNCHANGED <<grid, players, player_order, world_objects, spawning_players,
                 food_amount, pc, tick_count, steps_done, total_food_spawning_radius,
                 failures, food_radius, next_food_uuid, search, spawn_queue,
                 join_game_msgs, tick_updates, dropped_cells, broadcast_queue,
                 ticks_in_progress, position_updates, chase_target, last_message, failed_ticks,
                 UtilityVars>>

\* lines 184-201: update_position of a client whose game_data is set, and
\* the engine's listener getting the message
GatewayUpdatePosition(uuid, x, y) ==
  /\ uuid \in DOMAIN sessions
  /\ sessions[uuid].open
  /\ sessions[uuid].game_data
  /\ PlayerUpdatePositionListener(uuid, x, y)

\* lines 269-280: the websocket closes: unsubscribe is called for each of
\* its subscriptions.  Nothing is published and the timer is left alone.
WebsocketClose(uuid) ==
  /\ ListenersMayRun
  /\ uuid \in DOMAIN sessions
  /\ sessions[uuid].open
  /\ sessions' = [sessions EXCEPT ![uuid].open = FALSE,
                                  ![uuid].leaving = sessions[uuid].subscribed,
                                  ![uuid].closed_at = tick_count,
                                  ![uuid].player_at_close = uuid \in DOMAIN players]
  /\ UNCHANGED <<grid, players, player_order, world_objects, spawning_players,
                 food_amount, pc, tick_count, steps_done, total_food_spawning_radius,
                 failures, food_radius, next_food_uuid, search, spawn_queue,
                 join_game_msgs, tick_updates, dropped_cells, broadcast_queue,
                 ticks_in_progress, position_updates, chase_target, last_message,
                 client_msgs, failed_ticks, UtilityVars>>

\* part_016 line 83 and index.ts line 274: the awaited unsubscribe is done;
\* up to here a message published on the channel still reaches the callback
UnsubscribeResolves(uuid) ==
  /\ ListenersMayRun
  /\ uuid \in DOMAIN sessions
  /\ sessions[uuid].leaving
  /\ sessions' = [sessions EXCEPT ![uuid].leaving = FALSE, ![uuid].subscribed = FALSE]
  /\ UNCHANGED <<grid, players, player_order, world_objects, spawning_players,
                 food_amount, pc, tick_count, steps_done, total_food_spawning_radius,
                 failures, food_radius, next_food_uuid, search, spawn_queue,
                 join_game_msgs, tick_updates, dropped_cells, broadcast_queue,
                 ticks_in_progress, position_updates, chase_target, last_message,
                 client_msgs, failed_ticks, UtilityVars>>

\* the next tick, the messages of the one before having reached the gateway
\* and the awaits begun before it being over
GatewayTickStart ==
  /\ \A uuid \in DOMAIN sessions :
       /\ ~JoinGamePending(uuid) /\ ~TickUpdatePending(uuid)
       /\ ~sessions[uuid].leaving /\ ~sessions[uuid].join_game_sending
  /\ TickWithin(MaxGatewayTicks)

GatewayNext ==
  \/ \E uuid \in PlayerUUIDs : GatewayJoinGame(uuid)
  \/ \E uuid \in PlayerUUIDs : GatewayJoinGameListener(uuid)
  \/ \E uuid \in PlayerUUIDs : GatewayTimerFires(uuid)
  \/ \E uuid \in PlayerUUIDs : GatewayForwardJoinGame(uuid)
  \/ \E uuid \in PlayerUUIDs : GatewaySendJoinGame(uuid)
  \/ \E uuid \in PlayerUUIDs : GatewayForwardTickUpdate(uuid)
  \/ \E uuid \in PlayerUUIDs, cursor \in GatewayCursorSamples :
       GatewayUpdatePosition(uuid, cursor[1], cursor[2])
  \/ \E uuid \in PlayerUUIDs : WebsocketClose(uuid)
  \/ \E uuid \in PlayerUUIDs : UnsubscribeResolves(uuid)
  \/ GatewayTickStart
  \/ \E rand \in RadiusSamples : SpawnFoodIteration(rand)
  \/ \E rand \in GatewayPositionSamples : SearchAttempt(rand[1], rand[2])
  \/ FoodPlaced
  \/ FoodFailed
  \/ SpawnFoodDone
  \/ UpdatePlayersLocations
  \/ SpawnPlayerIteration
  \/ PlayerPlaced
  \/ PlayerFailed
  \/ SpawnPlayerDone
  \/ BroadcastTickUpdate
  \/ BroadcastDone
  \/ PublishesResolve

GatewaySpec == Init /\ [][GatewayNext]_vars

----------------------------------------------------------------------------
(* The grid and the entities                                               *)

\* the handle a blob is filed under in the grid (line 621)
BlobHandle(player_uuid, i) ==
  stringify_entity_type_uuid([type |-> PLAYER_BLOB, uuid |-> player_uuid, blob_index |-> i - 1])

\* the handle a world object is filed under in the grid (line 542)
WorldObjectHandle(uuid) == stringify_entity_type_uuid([type |-> WORLD_OBJECT, uuid |-> uuid])

\* the handles of one kind that sit in some cell of the grid
BlobHandlesInGrid ==
  {h \in UNION Range(grid) : parse_entity_type_uuid(h).type = PLAYER_BLOB}

WorldObjectHandlesInGrid ==
  {h \in UNION Range(grid) : parse_entity_type_uuid(h).type = WORLD_OBJECT}

\* C1: every cell key in the _cells of a player blob or of a world object is
\* a cell of the grid, and that cell holds the entity's handle.  The code
\* breaks it: _spawnPlayer stores the blob and never files it in the grid.
C1_EntityCellsHoldHandle ==
  /\ \A u \in DOMAIN players : \A i \in DOMAIN players[u].blobs :
       \A k \in players[u].blobs[i]._cells :
         k \in DOMAIN grid /\ BlobHandle(u, i) \in grid[k]
  /\ \A w \in DOMAIN world_objects : \A k \in world_objects[w]._cells :
       k \in DOMAIN grid /\ WorldObjectHandle(w) \in grid[k]

\* C2: every handle in a cell of the grid resolves to an existing player
\* blob or world object, and the cell's key is in that entity's _cells.
C2_GridHandlesListed ==
  \A k \in DOMAIN grid : \A h \in grid[k] :
    LET entity_uuid == parse_entity_type_uuid(h)
    IN IF entity_uuid.type = PLAYER_BLOB
       THEN /\ entity_uuid.uuid \in DOMAIN players
            /\ entity_uuid.blob_index + 1 \in DOMAIN players[entity_uuid.uuid].blobs
            /\ k \in players[entity_uuid.uuid].blobs[entity_uuid.blob_index + 1]._cells
       ELSE /\ entity_uuid.uuid \in DOMAIN world_objects
            /\ k \in world_objects[entity_uuid.uuid]._cells

\* a reindex has filed a blob in the grid, next to a world object filed by
\* _spawnFood
C2_Witness ==
  /\ BlobHandlesInGrid # {}
  /\ WorldObjectHandlesInGrid # {}

\* C3: no cell of the grid has an empty handle set.
C3_NoEmptyCell == \A k \in DOMAIN grid : grid[k] # {}

\* the last _updatePlayersLocations took the last handle out of a cell and
\* deleted the cell, and the grid still has cells
C3_Witness ==
  /\ dropped_cells # {}
  /\ DOMAIN grid # {}

----------------------------------------------------------------------------
(* Blobs and placement                                                     *)

\* C4: every blob of every player lies inside the world: |x| and |y| are at
\* most WORLD_RADIUS - r, from the state right after the spawn on.  The code
\* breaks it: the sample of lines 246-248 ranges over +-(WORLD_RADIUS - r/2).
C4_BlobsInsideWorld ==
  \A u \in DOMAIN players : \A i \in DOMAIN players[u].blobs :
    LET B == players[u].blobs[i]
    IN /\ Abs(B.x) <= Px(WORLD_RADIUS) - B.r
       /\ Abs(B.y) <= Px(WORLD_RADIUS) - B.r

\* C5: between the steps of the pipeline the _cells of every blob are the
\* cells its aabb intersects (the tick loop not having died in a throw).
\* The code breaks it: the retarget path of _randomCollisionFreeLocation
\* returns the box of the rejected candidate with the flagged cell alone.
C5_CellsMatchAabb ==
  pc # "crashed" =>
    \A u \in DOMAIN players : \A i \in DOMAIN players[u].blobs :
      players[u].blobs[i]._cells = _cellsIntersectingAabb(players[u].blobs[i].aabb)

\* C6: when _randomCollisionFreeLocation has returned a location, its aabb
\* (stored as the aabb of the entity about to be created) overlaps the aabb
\* of no blob and of no world object, Food excepted for a new player blob.
\* The code breaks it: a spawned blob is in no cell of the grid, so the scan
\* of the candidate's cells does not meet it.
C6_PlacementOverlapsNothing ==
  pc = "searchDone" /\ search.result.success =>
    LET aabb == search.result.location.aabb
    IN /\ \A u \in DOMAIN players : \A i \in DOMAIN players[u].blobs :
            ~_overlaps(players[u].blobs[i].aabb, aabb)
       /\ \A w \in DOMAIN world_objects :
            \/ search.entity = PLAYER_BLOB /\ world_objects[w].type = FOOD
            \/ ~_overlaps(world_objects[w].aabb, aabb)

\* C7: _randomCollisionFreeLocation terminates.  While the loop runs fewer
\* than max_attempts candidates have been evaluated and none was accepted;
\* every pass through the loop either returns or evaluates one more
\* candidate; and when the function has returned it has evaluated at most
\* max_attempts candidates, and it reports a failure only when it rejected
\* max_attempts of them (it returns a location otherwise).
C7_SearchTerminates ==
  /\ [](pc = "search" =>
          /\ ~search.result.success
          /\ search.candidates < search.max_attempts)
  /\ [](pc = "searchDone" =>
          /\ search.candidates <= search.max_attempts
          /\ ~search.result.success => search.candidates = search.max_attempts)
  /\ [][pc = "search" =>
          \/ pc' = "searchDone"
          \/ pc' = "search" /\ search'.candidates = search.candidates + 1]_vars

\* the search for a player's location gave up after max_attempts candidates
C7_Witness ==
  /\ pc = "searchDone"
  /\ search.entity = PLAYER_BLOB
  /\ ~search.result.success
  /\ search.candidates = PLAYER_LOCATION_ATTEMPTS

\* C8: in the tick_update a tick publishes to a player P, other_blobs has an
\* entry for every other player with a blob whose aabb overlaps P's
\* vision_aabb.  The code breaks it: a blob that _spawnPlayer created and
\* that has not changed cells since is in no cell of the grid.
C8_VisibilityComplete ==
  pc = "idle" =>
    \A P \in DOMAIN tick_updates : \A Q \in DOMAIN players \ {P} :
      \A i \in DOMAIN players[Q].blobs :
        _overlaps(players[P].vision_aabb, players[Q].blobs[i].aabb)
          => \E k \in DOMAIN tick_updates[P].other_blobs :
               /\ tick_updates[P].other_blobs[k][1] = Q
               /\ tick_updates[P].other_blobs[k][2].x = players[Q].blobs[i].x
               /\ tick_updates[P].other_blobs[k][2].y = players[Q].blobs[i].y

\* C9: what _visibleEntities(P) returns is sound.  Every entry of other_blobs
\* is a blob of a player other than P whose aabb overlaps P's vision_aabb;
\* every entry of world_objects is a world object whose aabb overlaps it; no
\* uuid has two entries.
C9_VisibilitySound ==
  \A P \in DOMAIN players :
    LET visible == _visibleEntities(P)
        vision_aabb == players[P].vision_aabb
    IN /\ \A k \in DOMAIN visible.other_blobs :
            LET uuid == visible.other_blobs[k][1]
                entry == visible.other_blobs[k][2]
            IN /\ uuid # P
               /\ uuid \in DOMAIN players
               /\ \E i \in DOMAIN players[uuid].blobs :
                    LET blob == players[uuid].blobs[i]
                    IN /\ entry = [x |-> blob.x, y |-> blob.y, r |-> blob.r,
                                   vx |-> blob.vx, vy |-> blob.vy]
                       /\ _overlaps(vision_aabb, blob.aabb)
               /\ \A j \in DOMAIN visible.other_blobs :
                    j # k => visible.other_blobs[j][1] # uuid
       /\ \A k \in DOMAIN visible.world_objects :
            LET uuid == visible.world_objects[k][1]
                entry == visible.world_objects[k][2]
            IN /\ uuid \in DOMAIN world_objects
               /\ entry = [type |-> world_objects[uuid].type, x |-> world_objects[uuid].x,
                           y |-> world_objects[uuid].y, r |-> world_objects[uuid].r]
               /\ _overlaps(vision_aabb, world_objects[uuid].aabb)
               /\ \A j \in DOMAIN visible.world_objects :
                    j # k => visible.world_objects[j][1] # uuid

\* a player sees a blob of another player, and a world object that is filed
\* in several of the cells the player's vision covers
C9_Witness ==
  \E P \in DOMAIN players :
    LET visible == _visibleEntities(P)
        vision_cells == _cellsIntersectingAabb(players[P].vision_aabb) \cap DOMAIN grid
    IN /\ visible.other_blobs # <<>>
       /\ \E k \in DOMAIN visible.world_objects :
            Cardinality({c \in vision_cells :
                           WorldObjectHandle(visible.world_objects[k][1]) \in grid[c]}) > 1

\* C10: a tick runs its steps in the order spawn food, spawn the joining
\* players, integrate motion and reindex, gather visibility and broadcast.
\* The code breaks it: _tick runs _updatePlayersLocations before
\* _spawnPlayer.
C10_StepOrder ==
  pc = "idle" /\ tick_count > 0 =>
    steps_done = <<"spawnFood", "spawnPlayer", "updatePlayersLocations",
                   "broadcastTickUpdate">>

----------------------------------------------------------------------------
(* The tick loop and the messages                                          *)

\* the tick has integrated the motion and has yet to compute a tick_update
BroadcastAhead ==
  /\ pc \in {"spawnPlayer", "search", "searchDone", "broadcastTickUpdate"}
  /\ "updatePlayersLocations" \in Range(steps_done)

\* C11: from the end of _updatePlayersLocations until the last tick_update
\* of the tick is computed no listener callback runs (no uuid is added to
\* spawning_players, no player's client_x or client_y changes) and no
\* player that exists changes (blobs, com, aabb), nor does any grid cell;
\* once they are all computed, every tick_update of the tick is the one the
\* world state of that moment gives.
C11_OneWorldStatePerTick ==
  /\ [][BroadcastAhead =>
          /\ Range(spawning_players') \subseteq Range(spawning_players)
          /\ grid' = grid
          /\ \A u \in DOMAIN players : players'[u] = players[u]]_vars
  /\ [](pc = "publishing" =>
          \A u \in DOMAIN players :
            tick_updates[u] = MessageData(players, u, _visibleEntities(u)))

\* the tick_update of the first of two players is computed, that of the
\* second is not yet
C11_Witness ==
  /\ pc = "broadcastTickUpdate"
  /\ Len(player_order) = 2
  /\ broadcast_queue = Tail(player_order)

\* C12: ticks never overlap.  At most one invocation of _tick is unsettled,
\* and a tick starts only when none is: the publishes of the tick before it
\* have resolved.
C12_TicksNeverOverlap ==
  /\ [](ticks_in_progress <= 1)
  /\ [](ticks_in_progress = 0 <=> pc \in {"idle", "crashed"})
  /\ [][tick_count' # tick_count => ticks_in_progress = 0 /\ pc = "idle"]_vars

\* a later tick runs after messages arrived while the publishes of the tick
\* before it were pending
C12_Witness ==
  /\ tick_count > 1
  /\ ticks_in_progress = 1
  /\ pc = "updatePlayersLocations"
  /\ spawning_players # <<>>

\* C13: a player no update_position was ever applied to stays where it was
\* spawned (the tick loop not having died in a throw): its blob and its com are at the position its join_game message
\* gave.  The code breaks it: _spawnPlayer sets client_x and client_y to the
\* middle of the viewport in pixels, and _updatePlayersLocations reads them
\* as an offset of the target from the com.
C13_IdlePlayerStays ==
  pc # "crashed" =>
    \A u \in DOMAIN players \ position_updates :
      /\ players[u].blobs[1].x = join_game_msgs[u].self_blobs[1].x
      /\ players[u].blobs[1].y = join_game_msgs[u].self_blobs[1].y
      /\ players[u].com_x = join_game_msgs[u].com_x
      /\ players[u].com_y = join_game_msgs[u].com_y

\* C14: a player that had one update_position applied, the cursor at the
\* middle of the right edge of the viewport, while it was inside the world,
\* keeps its y and never goes beyond the target x the message gave (the x
\* it had plus (CLIENT_WIDTH_PIXELS / 2) * zoom_factor).  The code breaks
\* it: the target of every tick is the com of that tick plus client_x, and
\* the com follows the blob.
C14_ChaseConverges ==
  pc # "crashed" =>
    \A u \in DOMAIN chase_target :
      LET blob == players[u].blobs[1]
          start_x == chase_target[u].x - players[u].client_x
          start_y == chase_target[u].y
      IN Abs(start_x) <= Px(WORLD_RADIUS) - blob.r /\ Abs(start_y) <= Px(WORLD_RADIUS) - blob.r
           => blob.y = chase_target[u].y /\ blob.x <= chase_target[u].x

C16_ClosedPlayerRemoved ==
  \A uuid \in DOMAIN sessions :
    (/\ ~sessions[uuid].open
     /\ sessions[uuid].player_at_close
     /\ pc = "idle"
     /\ tick_count > sessions[uuid].closed_at)
    => /\ uuid \notin DOMAIN players
       /\ \A h \in BlobHandlesInGrid : parse_entity_type_uuid(h).uuid # uuid

\* C17: a queued join_game whose placement has failed in
\* MAXIMUM_PLAYER_SPAWNING_ATTEMPTS ticks in a row is no longer in the
\* spawning set, so that no later tick can make a player of it.
C17_FailedJoinDropped ==
  \A uuid \in DOMAIN failed_ticks :
    failed_ticks[uuid] >= MAXIMUM_PLAYER_SPAWNING_ATTEMPTS
    => uuid \notin Range(spawning_players)

\* the places of the error 408 (lines 69-75) and of the join_game message
\* (lines 166-172) among the messages sent to the client of a request
Sent408(uuid) ==
  {i \in DOMAIN client_msgs[uuid] :
     client_msgs[uuid][i].type = "error" /\ client_msgs[uuid][i].code = 408}

SentJoinGame(uuid) ==
  {i \in DOMAIN client_msgs[uuid] :
     client_msgs[uuid][i].type = "success" /\ client_msgs[uuid][i].method = "join_game"}

\* C18: for every join_game request of a client: while its timer is set,
\* no join_game message has come and no error 408 has been sent; when the
\* timer fired (no join_game message came in time) the client was sent the
\* error 408 once, the gateway has unsubscribed or is unsubscribing from
\* player:{uuid}, and no join_game message was sent to the client before
\* the error; when the join_game message came in time the timer is
\* cancelled and no error 408 is ever sent.
C18_JoinDeadline ==
  \A uuid \in DOMAIN sessions :
    /\ sessions[uuid].timer = "set"
       => /\ ~sessions[uuid].join_game_forwarded
          /\ Sent408(uuid) = {} /\ SentJoinGame(uuid) = {}
    /\ sessions[uuid].timer = "fired"
       => /\ Cardinality(Sent408(uuid)) = 1
          /\ sessions[uuid].subscribed => sessions[uuid].leaving
          /\ \A i \in Sent408(uuid), j \in SentJoinGame(uuid) : i < j
    /\ sessions[uuid].timer = "cleared"
       => /\ sessions[uuid].join_game_forwarded
          /\ Sent408(uuid) = {}
          /\ Cardinality(SentJoinGame(uuid)) = IF sessions[uuid].join_game_sending THEN 0 ELSE 1

\* one request answered in time, and one whose placement failed until the
\* timer fired
C18_Witness ==
  \E u, v \in DOMAIN sessions :
    /\ sessions[u].timer = "cleared"
    /\ sessions[v].timer = "fired"
    /\ FailedTicks(v) >= 1
    /\ v \in Range(spawning_players)

\* the messages the gateway sent on to the clients (lines 166-172)
ForwardedMessages ==
  UNION {{m \in Range(client_msgs[uuid]) : m.type = "success"} : uuid \in DOMAIN client_msgs}

\* an element as the client gets it, against the element and the centre of
\* mass of the message the engine published
OnScreen(screen, world, data) ==
  /\ screen.x = world.x - data.com_x + Px(CLIENT_WIDTH_PIXELS) \div 2
  /\ screen.y = data.com_y - world.y + Px(CLIENT_HEIGHT_PIXELS) \div 2
  /\ screen.r = world.r

\* C19: in every join_game and tick_update message the gateway forwards,
\* every element of self_blobs, other_blobs and world_objects has
\* screen_x = world_x - com_x + CLIENT_WIDTH_PIXELS/2 and
\* screen_y = com_y - world_y + CLIENT_HEIGHT_PIXELS/2 for the com_x and com_y
\* of that message, and its r as published; the elements and their keys are
\* those of the published message.
C19_ScreenCoordinates ==
  \A m \in ForwardedMessages :
    /\ m.data.com_x = m.source.com_x
    /\ m.data.com_y = m.source.com_y
    /\ DOMAIN m.data.self_blobs = DOMAIN m.source.self_blobs
    /\ \A i \in DOMAIN m.source.self_blobs :
         OnScreen(m.data.self_blobs[i], m.source.self_blobs[i], m.source)
    /\ DOMAIN m.data.other_blobs = DOMAIN m.source.other_blobs
    /\ \A i \in DOMAIN m.source.other_blobs :
         /\ m.data.other_blobs[i][1] = m.source.other_blobs[i][1]
         /\ OnScreen(m.data.other_blobs[i][2], m.source.other_blobs[i][2], m.source)
    /\ DOMAIN m.data.world_objects = DOMAIN m.source.world_objects
    /\ \A i \in DOMAIN m.source.world_objects :
         /\ m.data.world_objects[i][1] = m.source.world_objects[i][1]
         /\ OnScreen(m.data.world_objects[i][2], m.source.world_objects[i][2], m.source)

\* a forwarded message with a blob of another player and a world object
\* in it, away from the centre of mass
C19_Witness ==
  \E m \in ForwardedMessages :
    /\ m.source.other_blobs # <<>>
    /\ m.source.world_objects # <<>>
    /\ m.source.other_blobs[1][2].x # m.source.com_x
    /\ m.source.world_objects[1][2].y # m.source.com_y

\* the parts, between the ':' signs, of the key of an other_blobs entry
\* (line 390): the key is the uuid of the player, which holds no ':'
KeyParts(key) == <<key>>

\* C20: every key of an other_blobs entry in a join_game or tick_update
\* message the engine publishes is "uuid:blob_index", the handle of one blob
\* of a player.  The code breaks it: the key is the player's uuid alone.
C20_OtherBlobKeyIsHandle ==
  \A msgs \in {join_game_msgs, tick_updates} : \A P \in DOMAIN msgs :
    \A k \in DOMAIN msgs[P].other_blobs :
      \E Q \in DOMAIN players : \E i \in DOMAIN players[Q].blobs :
        KeyParts(msgs[P].other_blobs[k][1]) = BlobHandle(Q, i)

\* C21: no step of a tick fails fatally: every cell _updatePlayersLocations
\* takes a blob handle out of is in the grid, so that the step does not
\* throw, and every handle met in a grid cell is that of an existing player
\* blob or world object.  The code breaks it: a blob whose spawn cells were
\* never filed leaves one of them, and this.grid.get(c)! is undefined.
C21_NoFatalStep ==
  /\ pc # "crashed"
  /\ \A h \in BlobHandlesInGrid :
       /\ parse_entity_type_uuid(h).uuid \in DOMAIN players
       /\ parse_entity_type_uuid(h).blob_index + 1
            \in DOMAIN players[parse_entity_type_uuid(h).uuid].blobs
  /\ \A h \in WorldObjectHandlesInGrid :
       parse_entity_type_uuid(h).uuid \in DOMAIN world_objects

RECURSIVE SumSeq(_)
SumSeq(numbers) ==
  IF numbers = <<>> THEN 0 ELSE Head(numbers) + SumSeq(Tail(numbers))

\* the sum of r * r * values[i] over the blobs of a player (lines 613-616)
MassSum(blobs, values) ==
  SumSeq([i \in DOMAIN blobs |-> blobs[i].r * blobs[i].r * values[i]])

\* C22: while the tick loop lives, for every player (com_x, com_y) is the
\* mean of the positions of its blobs weighted by r * r, right after the
\* spawn and after every _updatePlayersLocations, and vision_aabb is the box
\* centred on (com_x, com_y) with half-extents
\* (CLIENT_WIDTH_PIXELS / 2) * zoom_factor and
\* (CLIENT_HEIGHT_PIXELS / 2) * zoom_factor.
C22_ComIsWeightedMean ==
  pc # "crashed" =>
    \A u \in DOMAIN players :
      LET player == players[u]
          total_mass == MassSum(player.blobs, [i \in DOMAIN player.blobs |-> 1])
          total_x == MassSum(player.blobs, [i \in DOMAIN player.blobs |-> player.blobs[i].x])
          total_y == MassSum(player.blobs, [i \in DOMAIN player.blobs |-> player.blobs[i].y])
      IN /\ player.com_x = TDiv(total_x, total_mass)
         /\ player.com_y = TDiv(total_y, total_mass)
         /\ player.vision_aabb =
              calculate_aabb(player.com_x, player.com_y,
                             TDiv(Px(CLIENT_WIDTH_PIXELS \div 2) * player.zoom_factor, Million),
                             TDiv(Px(CLIENT_HEIGHT_PIXELS \div 2) * player.zoom_factor, Million))

\* between two ticks, a player that the last tick moved away from the
\* place it was spawned at
C22_Witness ==
  /\ pc = "idle"
  /\ tick_count >= 2
  /\ \E u \in DOMAIN players :
       /\ players[u].com_x # join_game_msgs[u].com_x
       /\ players[u].com_y # join_game_msgs[u].com_y

\* C23: every successful result of _randomCollisionFreeLocation is
\* consistent: its aabb is calculate_aabb(x, y, radius +
\* MIN_SEPERATION_DISTANCE, radius + MIN_SEPERATION_DISTANCE) for its own
\* (x, y), and its _cells is _cellsIntersectingAabb of that aabb.  The code
\* breaks it on the retarget path, which returns the box of the attempt
\* before and the flagged cell alone.
C23_ResultConsistent ==
  (pc = "searchDone" /\ search.result.success) =>
    LET location == search.result.location
    IN /\ location.aabb =
            calculate_aabb(location.x, location.y,
                           search.radius + Px(MIN_SEPERATION_DISTANCE),
                           search.radius + Px(MIN_SEPERATION_DISTANCE))
       /\ location._cells = _cellsIntersectingAabb(location.aabb)

\* C24: when _randomCollisionFreeLocation retargets an attempt into a cell
\* it found absent from the grid, the position it returns lies inside the
\* world-space square of that cell, [cx * GRID_CELL_SIZE, (cx + 1) *
\* GRID_CELL_SIZE] x [cy * GRID_CELL_SIZE, (cy + 1) * GRID_CELL_SIZE], and
\* no existing entity that rejects a random sample overlaps the candidate
\* box of that position.  The code breaks it: the cell's indices are taken
\* for world coordinates, and the retargeted position is not tested.
C24_RetargetInsideCell ==
  (pc = "searchDone" /\ search.result.success /\ search.empty_cell_hash # NoCell) =>
    LET cell == _unhashCell(search.empty_cell_hash)
        location == search.result.location
        aabb == calculate_aabb(location.x, location.y,
                               search.radius + Px(MIN_SEPERATION_DISTANCE),
                               search.radius + Px(MIN_SEPERATION_DISTANCE))
    IN /\ cell.x * Px(GRID_CELL_SIZE) <= location.x
       /\ location.x <= (cell.x + 1) * Px(GRID_CELL_SIZE)
       /\ cell.y * Px(GRID_CELL_SIZE) <= location.y
       /\ location.y <= (cell.y + 1) * Px(GRID_CELL_SIZE)
       /\ \A u \in DOMAIN players : \A i \in DOMAIN players[u].blobs :
            ~_overlaps(players[u].blobs[i].aabb, aabb)
       /\ \A w \in DOMAIN world_objects :
            (search.entity = PLAYER_BLOB /\ world_objects[w].type = FOOD)
            \/ ~_overlaps(world_objects[w].aabb, aabb)

\* C25: every position a successful placement returns for an entity of
\* radius r, and so every Food item, has |x| <= WORLD_RADIUS - r and
\* |y| <= WORLD_RADIUS - r.  The code breaks it: a random sample ranges over
\* 2 * WORLD_RADIUS - r, which is r / 2 too far on each side.
C25_PositionsInsideWorld ==
  /\ (pc = "searchDone" /\ search.result.success) =>
       /\ Abs(search.result.location.x) <= Px(WORLD_RADIUS) - search.radius
       /\ Abs(search.result.location.y) <= Px(WORLD_RADIUS) - search.radius
  /\ \A w \in DOMAIN world_objects :
       /\ Abs(world_objects[w].x) <= Px(WORLD_RADIUS) - world_objects[w].r
       /\ Abs(world_objects[w].y) <= Px(WORLD_RADIUS) - world_objects[w].r

\* a step of the search that makes a random-sample attempt
RandomSampleStep ==
  /\ pc = "search"
  /\ search.empty_cell_hash = NoCell
  /\ search'.candidates = search.candidates + 1

\* the candidate box of the attempt a step made overlaps the box of an
\* existing Food item, of an existing player blob, of another world object
CandidateOverlapsFood ==
  \E w \in DOMAIN world_objects :
    world_objects[w].type = FOOD /\ _overlaps(world_objects[w].aabb, search'.aabb)

CandidateOverlapsBlob ==
  \E u \in DOMAIN players : \E i \in DOMAIN players[u].blobs :
    _overlaps(players[u].blobs[i].aabb, search'.aabb)

CandidateOverlapsVirus ==
  \E w \in DOMAIN world_objects :
    world_objects[w].type # FOOD /\ _overlaps(world_objects[w].aabb, search'.aabb)

\* C26: in a random-sample attempt, a candidate whose box overlaps the box
\* of an existing Food item is rejected when Food is being placed, and the
\* Food is ignored when a player blob is being placed (the candidate is
\* accepted unless a blob or a Virus overlaps); a candidate whose box
\* overlaps the box of an existing player blob or Virus is rejected for
\* every kind.  The code breaks it for a blob that is not filed in the grid.
C26_CollisionRule ==
  [][RandomSampleStep =>
       /\ (search.entity = FOOD /\ CandidateOverlapsFood) => ~search'.result.success
       /\ (CandidateOverlapsBlob \/ CandidateOverlapsVirus) => ~search'.result.success
       /\ (search.entity = PLAYER_BLOB /\ ~CandidateOverlapsBlob /\ ~CandidateOverlapsVirus)
            => search'.result.success]_vars

\* C27: for a queued joining player, the placement search of _spawnPlayer
\* reports failure for the tick only when it has made
\* MAXIMUM_PLAYER_SPAWNING_ATTEMPTS attempts.  The code breaks it: the
\* search is called with the literal 5.
C27_PlayerAttemptsPerTick ==
  (pc = "searchDone" /\ search.entity = PLAYER_BLOB /\ ~search.result.success)
  => /\ search.max_attempts = MAXIMUM_PLAYER_SPAWNING_ATTEMPTS
     /\ search.candidates = MAXIMUM_PLAYER_SPAWNING_ATTEMPTS

\* C28: a queued join whose placement fails in a tick leaves the world
\* untouched and is retried: the step that takes the failure changes
\* neither players, the grid, world_objects, the published messages nor
\* food_amount, and leaves the uuid in spawning_players; a uuid with failed
\* ticks behind it is in spawning_players and has no Player record; and the
\* _spawnPlayer of the next tick goes through the whole of spawning_players.
C28_FailedJoinRetried ==
  /\ [][(pc = "searchDone" /\ search.entity = PLAYER_BLOB /\ ~search.result.success)
          => /\ UNCHANGED <<players, player_order, grid, world_objects, join_game_msgs,
                            tick_updates, food_amount, spawning_players>>
             /\ Head(spawn_queue) \in Range(spawning_players')]_vars
  /\ [](\A uuid \in DOMAIN failed_ticks :
          failed_ticks[uuid] > 0
          => /\ uuid \in Range(spawning_players)
             /\ uuid \notin DOMAIN players
             /\ uuid \notin DOMAIN join_game_msgs)
  /\ [][(pc = "updatePlayersLocations" /\ pc' = "spawnPlayer")
          => spawn_queue' = spawning_players]_vars

\* the search of a later tick for a uuid whose placement failed before
C28_Witness ==
  /\ pc = "search"
  /\ search.entity = PLAYER_BLOB
  /\ search.candidates > 0
  /\ FailedTicks(Head(spawn_queue)) >= 1

\* C29: each pass of _spawnFood terminates.  The loop is entered only while
\* the radius budget of the tick is above MINIMUM_FOOD_RADIUS and fewer than
\* MAXIMUM_FOOD_SPAWNING_ATTEMPTS placements have failed, and is left as
\* soon as one of the two is no longer so; every pass through the loop takes
\* at least MINIMUM_FOOD_RADIUS from the budget; the failed placements of a
\* tick never exceed MAXIMUM_FOOD_SPAWNING_ATTEMPTS; a failed placement
\* changes neither world_objects nor the grid, counts one failure and goes
\* back to the loop.
C29_SpawnFoodTerminates ==
  /\ [](failures <= MAXIMUM_FOOD_SPAWNING_ATTEMPTS)
  /\ [][(pc = "spawnFood" /\ pc' = "search")
          => /\ total_food_spawning_radius > Px(MINIMUM_FOOD_RADIUS)
             /\ failures < MAXIMUM_FOOD_SPAWNING_ATTEMPTS
             /\ total_food_spawning_radius'
                  <= total_food_spawning_radius - Px(MINIMUM_FOOD_RADIUS)]_vars
  /\ [][(pc = "spawnFood" /\ pc' # "search" /\ pc' # pc)
          => /\ pc' = "updatePlayersLocations"
             /\ \/ total_food_spawning_radius <= Px(MINIMUM_FOOD_RADIUS)
                \/ failures = MAXIMUM_FOOD_SPAWNING_ATTEMPTS]_vars
  /\ [][(pc = "searchDone" /\ search.entity = FOOD /\ ~search.result.success)
          => /\ UNCHANGED <<world_objects, grid, food_amount, total_food_spawning_radius>>
             /\ failures' = failures + 1
             /\ pc' = "spawnFood"]_vars

\* a pass that placed a Food item, then failed
\* MAXIMUM_FOOD_SPAWNING_ATTEMPTS times with budget left
C29_Witness ==
  /\ pc = "spawnFood"
  /\ failures = MAXIMUM_FOOD_SPAWNING_ATTEMPTS
  /\ total_food_spawning_radius > Px(MINIMUM_FOOD_RADIUS)
  /\ world_objects # EmptyMap

\* C30: food_amount is never negative; it changes only when a player is
\* placed, by exactly 100 more, and when _spawnFood takes the budget of a
\* tick out of it; a failed placement and a join_game message that is only
\* queued leave it alone.
C30_FoodAmountAccounting ==
  /\ [](food_amount >= 0)
  /\ [][food_amount' # food_amount
          => \/ /\ pc = "searchDone" /\ search.entity = PLAYER_BLOB /\ search.result.success
                /\ food_amount' = food_amount + Px(100)
             \/ /\ pc = "idle" /\ pc' = "spawnFood"
                /\ food_amount' = food_amount - total_food_spawning_radius']_vars
  /\ [][(pc = "searchDone" /\ search.entity = PLAYER_BLOB /\ search.result.success)
          => food_amount' = food_amount + Px(100)]_vars
  /\ [][spawning_players' # spawning_players /\ players' = players
          => food_amount' = food_amount]_vars

\* a tick in which a placement has failed, food_amount holding what
\* _spawnFood left of the 100 of an earlier spawn
C30_Witness ==
  /\ pc = "spawnPlayer"
  /\ spawn_queue = <<>>
  /\ \E uuid \in Range(spawning_players) : FailedTicks(uuid) >= 1
  /\ food_amount > 0
  /\ food_amount < Px(100)

\* the target of the player is its centre of mass, where its one blob is,
\* inside the world
ZeroMotion(uuid) ==
  LET player == players[uuid]
  IN /\ player.client_x = 0
     /\ player.client_y = 0
     /\ Len(player.blobs) = 1
     /\ player.blobs[1].x = player.com_x
     /\ player.blobs[1].y = player.com_y
     /\ Abs(player.blobs[1].x) <= Px(WORLD_RADIUS) - player.blobs[1].r
     /\ Abs(player.blobs[1].y) <= Px(WORLD_RADIUS) - player.blobs[1].r

\* C31: when the target of every player is its centre of mass,
\* _updatePlayersLocations leaves every blob (x, y, aabb, _cells), every com
\* and vision_aabb, and the whole grid as they were.  The code breaks it in
\* the first pass after a spawn: the blob's aabb, which was the padded box of
\* its placement, becomes the box of its own radius.
C31_ZeroMotionIsNoOp ==
  [][(pc = "updatePlayersLocations" /\ \A uuid \in DOMAIN players : ZeroMotion(uuid))
       => (pc' # "crashed" /\ players' = players /\ grid' = grid)]_vars

\* the cells of grid g that hold handle h
CellsHolding(g, h) == {k \in DOMAIN g : h \in g[k]}

\* the blob's handle is in the cells of its _cells and in no other cell
FiledExactly(uuid, i) ==
  CellsHolding(grid, BlobHandle(uuid, i)) = players[uuid].blobs[i]._cells

\* the distances a box is moved by, along each axis, to get the cell sets a
\* reindex is tried with: none, the blob's radius and a whole cell
ReindexShifts(blob) == {-Px(GRID_CELL_SIZE), -blob.r, 0, blob.r, Px(GRID_CELL_SIZE)}

ShiftedCells(blob, dx, dy) ==
  _cellsIntersectingAabb([minX |-> blob.aabb.minX + dx, maxX |-> blob.aabb.maxX + dx,
                          minY |-> blob.aabb.minY + dy, maxY |-> blob.aabb.maxY + dy])

\* C32: reindexing a blob whose handle is in exactly the cells of its _cells
\* ends with the handle in exactly the new cells and _cells equal to them,
\* moves no other handle, and changes nothing when the new cells are the old
\* ones.
C32_ReindexFrame ==
  \A uuid \in DOMAIN players : \A i \in DOMAIN players[uuid].blobs :
    FiledExactly(uuid, i) =>
      LET blob == players[uuid].blobs[i]
          blob_uuid == BlobHandle(uuid, i)
      IN \A dx \in ReindexShifts(blob) : \A dy \in ReindexShifts(blob) :
           LET blob_cells == ShiftedCells(blob, dx, dy)
               re == Reindex(grid, blob, blob_uuid, blob_cells)
           IN /\ ~re.crashed
              /\ re._cells = blob_cells
              /\ CellsHolding(re.grid, blob_uuid) = blob_cells
              /\ \A h \in (BlobHandlesInGrid \cup WorldObjectHandlesInGrid) \ {blob_uuid} :
                    CellsHolding(re.grid, h) = CellsHolding(grid, h)
              /\ blob_cells = blob._cells => re.grid = grid

\* reindexes have left a blob filed in exactly its cells, one of which it
\* shares with a world object
C32_Witness ==
  \E uuid \in DOMAIN players : \E i \in DOMAIN players[uuid].blobs :
    /\ FiledExactly(uuid, i)
    /\ \E w \in DOMAIN world_objects :
         world_objects[w]._cells \cap players[uuid].blobs[i]._cells # {}

\* C33: a world object, once created, keeps its record (x, y, r, aabb,
\* _cells) in every later step, and after every step the handle of every
\* world object is in every cell of its _cells.
C33_WorldObjectsStatic ==
  [][/\ \A w \in DOMAIN world_objects :
          w \in DOMAIN world_objects' /\ world_objects'[w] = world_objects[w]
     /\ \A w \in DOMAIN world_objects' : \A k \in world_objects'[w]._cells :
          k \in DOMAIN grid' /\ WorldObjectHandle(w) \in grid'[k]]_vars

\* a reindex has filed a blob in a cell that holds a Food item
C33_Witness ==
  \E k \in DOMAIN grid :
    /\ \E w \in DOMAIN world_objects : WorldObjectHandle(w) \in grid[k]
    /\ \E h \in grid[k] : parse_entity_type_uuid(h).type = PLAYER_BLOB

\* the value of a 32-bit word <<hi, lo>> is c modulo 2^32
IsLow32Of(word, c) ==
  /\ word[1] \in 0 .. Word - 1
  /\ word[2] \in 0 .. Word - 1
  /\ IF c >= 0 THEN word[1] < Word \div 2 /\ word[1] * Word + word[2] = c
               ELSE word[1] >= Word \div 2 /\ (word[1] - Word) * Word + word[2] = c

\* C34: for 32-bit signed cx and cy the key of (cx, cy) has cx mod 2^32 in
\* its upper 32 bits and cy mod 2^32 in its lower 32 bits, _unhashCell gives
\* (cx, cy) back from it, and no other pair of coordinates has the same key.
C34_CellKeyInvertible ==
  /\ cell_call.step \in {"hashed", "unhashed"} =>
       /\ Len(cell_call.hash) = 4
       /\ IsLow32Of(<<cell_call.hash[1], cell_call.hash[2]>>, cell_call.cx)
       /\ IsLow32Of(<<cell_call.hash[3], cell_call.hash[4]>>, cell_call.cy)
       /\ \A cx \in CoordinateSamples : \A cy \in CoordinateSamples :
            _hashCell(cx, cy) = cell_call.hash => cx = cell_call.cx /\ cy = cell_call.cy
  /\ cell_call.step = "unhashed" =>
       cell_call.cell = [x |-> cell_call.cx, y |-> cell_call.cy]

\* a key was made of a negative and of a large coordinate, and taken apart
C34_Witness ==
  /\ cell_call.step = "unhashed"
  /\ cell_call.cx = MinInt32
  /\ cell_call.cy = Word + 1

\* C35: the pass of _broadcastTickUpdate for one player, which calls
\* _visibleEntities and starts a publish, leaves grid, players,
\* world_objects, spawning_players and food_amount as they were.
C35_VisibleEntitiesReadOnly ==
  [][(pc = "broadcastTickUpdate" /\ broadcast_queue # <<>>)
       => UNCHANGED <<grid, players, world_objects, spawning_players, food_amount>>]_vars

\* _visibleEntities was called for a player whose vision box has cells that
\* are not in the grid, and found a world object in another
C35_Witness ==
  \E P \in DOMAIN tick_updates :
    /\ P \in DOMAIN players
    /\ tick_updates[P].world_objects # <<>>
    /\ _cellsIntersectingAabb(players[P].vision_aabb) \ DOMAIN grid # {}

\* the uuids of the entries of a world_objects or other_blobs list
EntryUuids(entries) == {entries[k][1] : k \in DOMAIN entries}

\* C36: in the tick_update computed for player P, every world object whose
\* aabb overlaps P's vision_aabb has an entry in world_objects.  The code
\* breaks it for a Food item placed by the retarget of lines 222-244, which
\* is filed in the flagged cell alone while its aabb is the box of the
\* candidate that failed.
C36_WorldObjectsVisible ==
  pc = "idle" =>
    \A P \in DOMAIN tick_updates : \A F \in DOMAIN world_objects :
      _overlaps(players[P].vision_aabb, world_objects[F].aabb)
        => F \in EntryUuids(tick_updates[P].world_objects)

\* C37: the step that creates the Player record of a uuid publishes the
\* join_game message of the uuid, which had none and had no tick_update; a
\* join_game message is published in no other step; and a uuid with a
\* tick_update has a Player record and a join_game message.
C37_JoinGameOncePerSpawn ==
  /\ [][\A uuid \in PlayerUUIDs :
          /\ (uuid \notin DOMAIN players /\ uuid \in DOMAIN players')
               => /\ uuid \notin DOMAIN join_game_msgs
                  /\ uuid \in DOMAIN join_game_msgs'
                  /\ uuid \notin DOMAIN tick_updates
                  /\ tick_updates' = tick_updates
          /\ (uuid \in DOMAIN join_game_msgs'
                /\ (uuid \in DOMAIN join_game_msgs => join_game_msgs'[uuid] # join_game_msgs[uuid]))
               => /\ uuid \notin DOMAIN players
                  /\ uuid \in DOMAIN players'
                  /\ tick_count' = tick_count]_vars
  /\ [](DOMAIN tick_updates \subseteq DOMAIN players \cap DOMAIN join_game_msgs)

\* a player got its join_game message and, after it, a tick_update, while
\* another uuid waits for a place
C37_Witness ==
  \E uuid \in DOMAIN players :
    /\ uuid \in DOMAIN join_game_msgs
    /\ uuid \in DOMAIN tick_updates
    /\ spawning_players # <<>>

\* C38: the client of a join_game request is never sent both the error 408
\* and the join_game message, and ws.data.game_data is not set for a
\* request that was answered with the error 408.  The code breaks it: the
\* callback of player:{uuid} has no test of the timer, and runs for a
\* join_game message that comes while the unsubscribe of line 76 is awaited.
C38_OneOutcome ==
  \A uuid \in DOMAIN sessions :
    /\ Sent408(uuid) = {} \/ SentJoinGame(uuid) = {}
    /\ Sent408(uuid) # {} => ~sessions[uuid].game_data

\* the server was told it is the leader, runs, and its heartbeat is younger
\* than the timeout
FreshLeader(s) ==
  /\ election_calls[s].result = "leader"
  /\ s \in servers_up
  /\ ~HeartbeatStale(server_heartbeat[s])

\* C39: election(key) returns {leader: true} to no server while another
\* server that was told it is the leader has a fresh heartbeat, and never to
\* two servers whose calls found the same leader, or none, recorded.  The
\* code breaks it: the GET of line 27 and the SET of line 37 or 48 are two
\* commands, and both callers may read before either writes.
C39_ElectionExclusive ==
  /\ [][\A s \in Servers :
          (election_calls[s].result # "leader" /\ election_calls'[s].result = "leader")
            => \A t \in Servers \ {s} : ~FreshLeader(t)]_vars
  /\ [](\A s, t \in Servers :
          (s # t /\ election_calls[s].result = "leader" /\ election_calls[t].result = "leader")
            => election_calls[s].current_leader # election_calls[t].current_leader)

\* C40: the connect() that a timer of scheduleReconnect carries out creates
\* a WebSocket, and the open event of a socket sets retryCount to 0 and
\* sends every stored subscription.  The code breaks the first part:
\* scheduleReconnect has set isReconnecting, and connect() returns at once
\* when it is set.
C40_ReconnectsAfterDrop ==
  [][/\ reconnect_timers' < reconnect_timers
          => ws' = "connecting" /\ sockets_created' = sockets_created + 1
     /\ (ws = "connecting" /\ ws' = "open")
          => retryCount' = 0 /\ subscriptions_sent' = subscriptions]_vars

====
